---- MODULE Spec2Model ----
(***************************************************************************)
(* A model of the arXiv identifier grammars of the `arxiv` crate: archive   *)
(* and group tables, category identifiers, article versions and the         *)
(* article identifier parser of both schemes.  Texts are TLA+ strings; a    *)
(* slice `&s[a..b]` is SubSeq(s, a+1, b) and aborts when out of range.      *)
(***************************************************************************)
EXTENDS Integers, Sequences, FiniteSets, TLC

\* The call in progress: the operation, its argument and its result.
VARIABLE call

vars == <<call>>

op == call[1]

arg == call[2]

ret == call[3]

(***************************************************************************)
(* Results of the operations: Ok(v), Err(e), Option's Some/None and the     *)
(* abort of the process (a slice or index out of range, panic!()).          *)
(***************************************************************************)
Ok(v) == [tag |-> "Ok", val |-> v]

Err(e) == [tag |-> "Err", err |-> e]

ErrWith(e, a, s) == [tag |-> "Err", err |-> e, archive |-> a, text |-> s]

Some(v) == [tag |-> "Some", val |-> v]

None == [tag |-> "None"]

Panic == [tag |-> "Panic"]

(***************************************************************************)
(* Characters and the primitives of the standard library the code uses.     *)
(***************************************************************************)
AsciiDigits == {"0", "1", "2", "3", "4", "5", "6", "7", "8", "9"}

AsciiUpper ==
    {"A", "B", "C", "D", "E", "F", "G", "H", "I", "J", "K", "L", "M",
     "N", "O", "P", "Q", "R", "S", "T", "U", "V", "W", "X", "Y", "Z"}

AsciiLower ==
    {"a", "b", "c", "d", "e", "f", "g", "h", "i", "j", "k", "l", "m",
     "n", "o", "p", "q", "r", "s", "t", "u", "v", "w", "x", "y", "z"}

\* The characters of the model in ascending byte order.
AsciiOrder ==
    " +-./0123456789:ABCDEFGHIJKLMNOPQRSTUVWXYZ[]abcdefghijklmnopqrstuvwxyz"

CharAt(s, i) == SubSeq(s, i, i)

is_ascii_digit(c) == c \in AsciiDigits

is_ascii_alphabetic(c) == c \in AsciiUpper \cup AsciiLower

all_ascii_digits(s) == \A i \in 1..Len(s) : is_ascii_digit(CharAt(s, i))

\* str::find / split_once: the 1-based position of the first c, 0 if none.
find(s, c) ==
    IF \E i \in 1..Len(s) : CharAt(s, i) = c
    THEN CHOOSE i \in 1..Len(s) :
            /\ CharAt(s, i) = c
            /\ \A j \in 1..(i - 1) : CharAt(s, j) # c
    ELSE 0

\* The number of parts str::split(c) yields, less one.
count(s, c) == Cardinality({i \in 1..Len(s) : CharAt(s, i) = c})

DigitValue(c) == CHOOSE n \in 0..9 : CharAt("0123456789", n + 1) = c

RECURSIVE Decimal(_)
Decimal(s) ==
    IF Len(s) = 0 THEN 0
    ELSE 10 * Decimal(SubSeq(s, 1, Len(s) - 1)) + DigitValue(CharAt(s, Len(s)))

\* str::parse::<iN>() (signed) and str::parse::<uN>() (not signed): an
\* optional sign, then one or more ASCII digits, within the type's range.
parse_int(s, signed, lo, hi) ==
    LET has_sign == /\ Len(s) > 0
                    /\ \/ CharAt(s, 1) = "+"
                       \/ signed /\ CharAt(s, 1) = "-"
        digits   == IF has_sign THEN SubSeq(s, 2, Len(s)) ELSE s
    IN  IF Len(digits) = 0 \/ ~all_ascii_digits(digits) THEN None
        ELSE LET v == IF has_sign /\ CharAt(s, 1) = "-"
                      THEN 0 - Decimal(digits) ELSE Decimal(digits)
             IN  IF v < lo \/ v > hi THEN None ELSE Some(v)

RECURSIVE NatToString(_)
NatToString(n) ==
    IF n < 10 THEN CharAt("0123456789", n + 1)
    ELSE NatToString(n \div 10) \o CharAt("0123456789", (n % 10) + 1)

\* Display of an integer.
to_string(n) == IF n < 0 THEN "-" \o NatToString(0 - n) ELSE NatToString(n)

\* format!("{:02}", n) of an integer: zero padded to two characters.
fmt_int_02(n) == IF n >= 0 /\ n < 10 THEN "0" \o to_string(n) ELSE to_string(n)

RECURSIVE Spaces(_)
Spaces(n) == IF n <= 0 THEN "" ELSE " " \o Spaces(n - 1)

\* format!("{:0w}", s) of a str: the text, space filled on the right to w.
fmt_str_width(s, w) == s \o Spaces(w - Len(s))

\* Byte order of two characters and of two strings (Ord for str).
Ord(c) == CHOOSE i \in 1..Len(AsciiOrder) : CharAt(AsciiOrder, i) = c

RECURSIVE str_cmp(_, _)
str_cmp(a, b) ==
    IF Len(a) = 0 /\ Len(b) = 0 THEN "Equal"
    ELSE IF Len(a) = 0 THEN "Less"
    ELSE IF Len(b) = 0 THEN "Greater"
    ELSE IF Ord(CharAt(a, 1)) < Ord(CharAt(b, 1)) THEN "Less"
    ELSE IF Ord(CharAt(a, 1)) > Ord(CharAt(b, 1)) THEN "Greater"
    ELSE str_cmp(SubSeq(a, 2, Len(a)), SubSeq(b, 2, Len(b)))

\* <[&str]>::binary_search(&x).is_ok() over the half-open range lo..hi.
RECURSIVE binary_search(_, _, _, _)
binary_search(table, x, lo, hi) ==
    IF lo >= hi THEN FALSE
    ELSE LET mid == lo + ((hi - lo) \div 2)
             c   == str_cmp(table[mid + 1], x)
         IN  IF c = "Equal" THEN TRUE
             ELSE IF c = "Less" THEN binary_search(table, x, mid + 1, hi)
             ELSE binary_search(table, x, lo, mid)

(***************************************************************************)
(* Archive and Group (archive.rs, group.rs).                                *)
(***************************************************************************)
Archives ==
    {"AstroPh", "CondMat", "Cs", "Econ", "Eess", "GrQc", "HepEx", "HepLat",
     "HepPh", "HepTh", "MathPh", "Math", "Nlin", "NuclEx", "NuclTh",
     "Physics", "QBio", "QFin", "QuantPh", "Stat"}

Groups == {"Cs", "Econ", "Eess", "Math", "Physics", "QBio", "QFin", "Stat"}

\* impl Display for Archive
Archive_fmt(a) ==
    CASE a = "AstroPh" -> "astro-ph"
      [] a = "CondMat" -> "cond-mat"
      [] a = "Cs"      -> "cs"
      [] a = "Econ"    -> "econ"
      [] a = "Eess"    -> "eess"
      [] a = "GrQc"    -> "gr-qc"
      [] a = "HepEx"   -> "hep-ex"
      [] a = "HepLat"  -> "hep-lat"
      [] a = "HepPh"   -> "hep-ph"
      [] a = "HepTh"   -> "hep-th"
      [] a = "MathPh"  -> "math-ph"
      [] a = "Math"    -> "math"
      [] a = "Nlin"    -> "nlin"
      [] a = "NuclEx"  -> "nucl-ex"
      [] a = "NuclTh"  -> "nucl-th"
      [] a = "Physics" -> "physics"
      [] a = "QBio"    -> "q-bio"
      [] a = "QFin"    -> "q-fin"
      [] a = "QuantPh" -> "quant-ph"
      [] a = "Stat"    -> "stat"

\* Archive::from_str with the tokens of Math and MathPh exchanged.
Archive_from_str_swapped(s) ==
    CASE s = "astro-ph" -> Ok("AstroPh")
      [] s = "cond-mat" -> Ok("CondMat")
      [] s = "cs"       -> Ok("Cs")
      [] s = "econ"     -> Ok("Econ")
      [] s = "eess"     -> Ok("Eess")
      [] s = "gr-qc"    -> Ok("GrQc")
      [] s = "hep-ex"   -> Ok("HepEx")
      [] s = "hep-lat"  -> Ok("HepLat")
      [] s = "hep-ph"   -> Ok("HepPh")
      [] s = "hep-th"   -> Ok("HepTh")
      [] s = "math-ph"  -> Ok("Math")
      [] s = "math"     -> Ok("MathPh")
      [] s = "nlin"     -> Ok("Nlin")
      [] s = "nucl-ex"  -> Ok("NuclEx")
      [] s = "nucl-th"  -> Ok("NuclTh")
      [] s = "physics"  -> Ok("Physics")
      [] s = "q-bio"    -> Ok("QBio")
      [] s = "q-fin"    -> Ok("QFin")
      [] s = "quant-ph" -> Ok("QuantPh")
      [] s = "stat"     -> Ok("Stat")
      [] OTHER          -> Err("()")

\* impl FromStr for Archive
Archive_from_str(s) ==
    CASE s = "astro-ph" -> Ok("AstroPh")
      [] s = "cond-mat" -> Ok("CondMat")
      [] s = "cs"       -> Ok("Cs")
      [] s = "econ"     -> Ok("Econ")
      [] s = "eess"     -> Ok("Eess")
      [] s = "gr-qc"    -> Ok("GrQc")
      [] s = "hep-ex"   -> Ok("HepEx")
      [] s = "hep-lat"  -> Ok("HepLat")
      [] s = "hep-ph"   -> Ok("HepPh")
      [] s = "hep-th"   -> Ok("HepTh")
      [] s = "math-ph"  -> Ok("MathPh")
      [] s = "math"     -> Ok("Math")
      [] s = "nlin"     -> Ok("Nlin")
      [] s = "nucl-ex"  -> Ok("NuclEx")
      [] s = "nucl-th"  -> Ok("NuclTh")
      [] s = "physics"  -> Ok("Physics")
      [] s = "q-bio"    -> Ok("QBio")
      [] s = "q-fin"    -> Ok("QFin")
      [] s = "quant-ph" -> Ok("QuantPh")
      [] s = "stat"     -> Ok("Stat")
      [] OTHER          -> Err("()")

\* Group::from with MathPh filed under Math instead of Physics.
Group_from_mathph(archive) ==
    CASE archive = "Cs"   -> "Cs"
      [] archive = "Econ" -> "Econ"
      [] archive = "Eess" -> "Eess"
      [] archive \in {"Math", "MathPh"} -> "Math"
      [] archive \in {"AstroPh", "CondMat", "GrQc", "HepEx", "HepLat",
                      "HepPh", "HepTh", "Nlin", "NuclEx", "NuclTh",
                      "Physics", "QuantPh"} -> "Physics"
      [] archive = "QBio" -> "QBio"
      [] archive = "QFin" -> "QFin"
      [] archive = "Stat" -> "Stat"

\* impl From<Archive> for Group
Group_from(archive) ==
    CASE archive = "Cs"   -> "Cs"
      [] archive = "Econ" -> "Econ"
      [] archive = "Eess" -> "Eess"
      [] archive = "Math" -> "Math"
      [] archive \in {"AstroPh", "CondMat", "GrQc", "HepEx", "HepLat",
                      "HepPh", "HepTh", "MathPh", "Nlin", "NuclEx",
                      "NuclTh", "Physics", "QuantPh"} -> "Physics"
      [] archive = "QBio" -> "QBio"
      [] archive = "QFin" -> "QFin"
      [] archive = "Stat" -> "Stat"

\* Archive::COMPSCI_TABLE with two neighbouring entries exchanged.
Archive_COMPSCI_TABLE_unsorted ==
    <<"AI", "AR", "CC", "CE", "CG", "CL", "CR", "CV", "CY", "DB", "DC", "DL",
      "DM", "DS", "ET", "FL", "GL", "GR", "GT", "HC", "IR", "IT", "LO", "LG",
      "MA", "MM", "MS", "NA", "NI", "OH", "OS", "PF", "PL", "RO", "SC", "SD",
      "SE", "SI", "SY">>

\* Archive::COMPSCI_TABLE
Archive_COMPSCI_TABLE ==
    <<"AI", "AR", "CC", "CE", "CG", "CL", "CR", "CV", "CY", "DB", "DC", "DL",
      "DM", "DS", "ET", "FL", "GL", "GR", "GT", "HC", "IR", "IT", "LG", "LO",
      "MA", "MM", "MS", "NA", "NI", "OH", "OS", "PF", "PL", "RO", "SC", "SD",
      "SE", "SI", "SY">>

\* Archive::MATH_TABLE
Archive_MATH_TABLE ==
    <<"AC", "AG", "AP", "AT", "CA", "CO", "CT", "CV", "DG", "DS", "FA", "GM",
      "GN", "GR", "GT", "HO", "IT", "KT", "LO", "MG", "MP", "NA", "NT", "OA",
      "OC", "PR", "QA", "RA", "RT", "SG", "SP", "ST">>

\* Archive::PHYSICS_TABLE
Archive_PHYSICS_TABLE ==
    <<"acc-ph", "ao-ph", "app-ph", "atm-clus", "atom-ph", "bio-ph", "chem-ph",
      "class-ph", "comp-ph", "data-an", "ed-pn", "flu-dyn", "gen-ph",
      "geo-ph", "hist-ph", "ins-det", "med-ph", "optics", "plasm-ph",
      "pop-ph", "soc-ph", "space-ph">>

\* Archive::is_valid_subject with the subject of HepTh left unchecked.
Archive_is_valid_subject_hepth(archive, subject) ==
    CASE archive = "AstroPh" ->
           subject \in {"CO", "EP", "GA", "HE", "IM", "SR"}
      [] archive = "CondMat" ->
           subject \in {"dis-nn", "mes-hall", "mtrl-sci", "other",
                        "quant-gas", "soft", "stat-mech", "str-el",
                        "supr-con"}
      [] archive = "Cs" ->
           binary_search(Archive_COMPSCI_TABLE, subject, 0,
                         Len(Archive_COMPSCI_TABLE))
      [] archive = "Econ" -> subject \in {"EM", "GN", "TH"}
      [] archive = "Eess" -> subject \in {"AS", "IV", "SP", "SY"}
      [] archive \in {"GrQc", "HepEx", "HepLat", "HepPh", "MathPh"} ->
           Len(subject) = 0
      [] archive = "HepTh" -> TRUE
      [] archive = "Math" ->
           binary_search(Archive_MATH_TABLE, subject, 0,
                         Len(Archive_MATH_TABLE))
      [] archive = "Nlin" -> subject \in {"AO", "CD", "CG", "PS", "SI"}
      [] archive \in {"NuclEx", "NuclTh"} -> Len(subject) = 0
      [] archive = "Physics" ->
           binary_search(Archive_PHYSICS_TABLE, subject, 0,
                         Len(Archive_PHYSICS_TABLE))
      [] archive = "QBio" ->
           subject \in {"BM", "CB", "GN", "MN", "NC", "OT", "PE", "QM",
                        "SC", "TO"}
      [] archive = "QFin" ->
           subject \in {"CP", "EC", "GN", "MF", "PM", "PR", "RM", "ST",
                        "SR"}
      [] archive = "QuantPh" -> Len(subject) = 0
      [] archive = "Stat" ->
           subject \in {"AP", "CO", "ME", "ML", "OT", "TH"}

\* Archive::is_valid_subject
Archive_is_valid_subject(archive, subject) ==
    CASE archive = "AstroPh" ->
           subject \in {"CO", "EP", "GA", "HE", "IM", "SR"}
      [] archive = "CondMat" ->
           subject \in {"dis-nn", "mes-hall", "mtrl-sci", "other",
                        "quant-gas", "soft", "stat-mech", "str-el",
                        "supr-con"}
      [] archive = "Cs" ->
           binary_search(Archive_COMPSCI_TABLE, subject, 0,
                         Len(Archive_COMPSCI_TABLE))
      [] archive = "Econ" -> subject \in {"EM", "GN", "TH"}
      [] archive = "Eess" -> subject \in {"AS", "IV", "SP", "SY"}
      [] archive \in {"GrQc", "HepEx", "HepLat", "HepPh", "HepTh",
                      "MathPh"} -> Len(subject) = 0
      [] archive = "Math" ->
           binary_search(Archive_MATH_TABLE, subject, 0,
                         Len(Archive_MATH_TABLE))
      [] archive = "Nlin" -> subject \in {"AO", "CD", "CG", "PS", "SI"}
      [] archive \in {"NuclEx", "NuclTh"} -> Len(subject) = 0
      [] archive = "Physics" ->
           binary_search(Archive_PHYSICS_TABLE, subject, 0,
                         Len(Archive_PHYSICS_TABLE))
      [] archive = "QBio" ->
           subject \in {"BM", "CB", "GN", "MN", "NC", "OT", "PE", "QM",
                        "SC", "TO"}
      [] archive = "QFin" ->
           subject \in {"CP", "EC", "GN", "MF", "PM", "PR", "RM", "ST",
                        "SR"}
      [] archive = "QuantPh" -> Len(subject) = 0
      [] archive = "Stat" ->
           subject \in {"AP", "CO", "ME", "ML", "OT", "TH"}

\* Archive::can_omit_subjects
can_omit_subjects(archive) == archive \in {"Physics", "CondMat"}

(***************************************************************************)
(* CategoryId (category_id.rs).                                             *)
(***************************************************************************)
COMPSCI_TABLE ==
    <<"AI", "AR", "CC", "CE", "CG", "CL", "CR", "CV", "CY", "DB", "DC", "DL",
      "DM", "DS", "ET", "FL", "GL", "GR", "GT", "HC", "IR", "IT", "LG", "LO",
      "MA", "MM", "MS", "NA", "NI", "OH", "OS", "PF", "PL", "RO", "SC", "SD",
      "SE", "SI", "SY">>

MATH_TABLE ==
    <<"AC", "AG", "AP", "AT", "CA", "CO", "CT", "CV", "DG", "DS", "FA", "GM",
      "GN", "GR", "GT", "HO", "IT", "KT", "LO", "MG", "MP", "NA", "NT", "OA",
      "OC", "PR", "QA", "RA", "RT", "SG", "SP", "ST">>

PHYSICS_TABLE ==
    <<"acc-ph", "ao-ph", "app-ph", "atm-clus", "atom-ph", "bio-ph", "chem-ph",
      "class-ph", "comp-ph", "data-an", "ed-pn", "flu-dyn", "gen-ph",
      "geo-ph", "hist-ph", "ins-det", "med-ph", "optics", "plasm-ph",
      "pop-ph", "soc-ph", "space-ph">>

\* CategoryId::new
CategoryId_new(group, archive, subject) ==
    [group |-> group, archive |-> archive, subject |-> subject]

\* CategoryId::try_new
CategoryId_try_new(archive, subject) ==
    LET is_valid ==
          CASE archive = "AstroPh" ->
                 subject \in {"CO", "EP", "GA", "HE", "IM", "SR"}
            [] archive = "CondMat" ->
                 subject \in {"dis-nn", "mes-hall", "mtrl-sci", "other",
                              "quant-gas", "soft", "stat-mech", "str-el",
                              "supr-con"}
            [] archive = "Cs" ->
                 binary_search(COMPSCI_TABLE, subject, 0, Len(COMPSCI_TABLE))
            [] archive = "Econ" -> subject \in {"EM", "GN", "TH"}
            [] archive = "Eess" -> subject \in {"AS", "IV", "SP", "SY"}
            [] archive \in {"GrQc", "HepEx", "HepLat", "HepPh", "HepTh",
                            "MathPh"} -> Len(subject) = 0
            [] archive = "Math" ->
                 binary_search(MATH_TABLE, subject, 0, Len(MATH_TABLE))
            [] archive = "Nlin" -> subject \in {"AO", "CD", "CG", "PS", "SI"}
            [] archive \in {"NuclEx", "NuclTh"} -> Len(subject) = 0
            [] archive = "Physics" ->
                 binary_search(PHYSICS_TABLE, subject, 0, Len(PHYSICS_TABLE))
            [] archive = "QBio" ->
                 subject \in {"BM", "CB", "GN", "MN", "NC", "OT", "PE", "QM",
                              "SC", "TO"}
            [] archive = "QFin" ->
                 subject \in {"CP", "EC", "GN", "MF", "PM", "PR", "RM", "ST",
                              "SR"}
            [] archive = "QuantPh" -> Len(subject) = 0
            [] archive = "Stat" ->
                 subject \in {"AP", "CO", "ME", "ML", "OT", "TH"}
    IN  IF is_valid
        THEN Some(CategoryId_new(Group_from(archive), archive, subject))
        ELSE None

\* impl Display for CategoryId
CategoryId_fmt(c) == Archive_fmt(c.archive) \o "." \o c.subject

\* impl TryFrom<&str> for CategoryId
CategoryId_try_from(s) ==
    IF count(s, ".") + 1 # 2 THEN Err("ExpectedSubject")
    ELSE LET dot         == find(s, ".")
             archive_str == SubSeq(s, 1, dot - 1)
             subject     == SubSeq(s, dot + 1, Len(s))
         IN  IF Len(subject) = 0 THEN Err("ExpectedSubject")
             ELSE LET archive == Archive_from_str(archive_str)
                  IN  IF archive.tag # "Ok"
                      THEN ErrWith("InvalidArchive", "", archive_str)
                      ELSE LET c == CategoryId_try_new(archive.val, subject)
                           IN  IF c.tag = "Some" THEN Ok(c.val)
                               ELSE ErrWith("InvalidArchiveSubject",
                                            archive.val, subject)

(***************************************************************************)
(* ArticleVersion (article_version.rs).                                     *)
(***************************************************************************)
Latest == [kind |-> "Latest", n |-> 0]

Num(n) == [kind |-> "Num", n |-> n]

U8_MAX == 255

\* impl Display for ArticleVersion
ArticleVersion_fmt(v) ==
    IF v.kind = "Latest" THEN "" ELSE "v" \o to_string(v.n)

\* ArticleVersion::from_str, as the parser calls it: the empty text is
\* Latest, otherwise a literal v and one or more ASCII digits within u8.
ArticleVersion_from_str(s) ==
    IF Len(s) = 0 THEN Ok(Latest)
    ELSE IF CharAt(s, 1) # "v" THEN Err("()")
    ELSE LET digits == SubSeq(s, 2, Len(s))
         IN  IF Len(digits) = 0 \/ ~all_ascii_digits(digits) THEN Err("()")
             ELSE IF Decimal(digits) > U8_MAX THEN Err("()")
             ELSE Ok(Num(Decimal(digits)))

\* Iterator::take_while(|c| c.is_ascii_digit()): the leading ASCII digits.
RECURSIVE take_while_ascii_digit(_)
take_while_ascii_digit(s) ==
    IF Len(s) = 0 \/ ~is_ascii_digit(CharAt(s, 1)) THEN ""
    ELSE CharAt(s, 1) \o take_while_ascii_digit(SubSeq(s, 2, Len(s)))

\* parse_numbervv reading the version as a signed 8-bit integer.
parse_numbervv_i8(s) ==
    IF Len(s) < 4 THEN None
    ELSE IF ~all_ascii_digits(SubSeq(s, 1, 4)) THEN None
    ELSE LET number ==
               IF Len(s) >= 5 /\ is_ascii_digit(CharAt(s, 5))
               THEN SubSeq(s, 1, 5) ELSE SubSeq(s, 1, 4)
             after_number == SubSeq(s, Len(number) + 1, Len(s))
         IN  IF Len(s) > Len(number) /\ CharAt(after_number, 1) = "v"
             THEN LET consume ==
                        take_while_ascii_digit(
                            SubSeq(after_number, 2, Len(after_number)))
                      version_u8 == parse_int(consume, TRUE, -128, 127)
                  IN  IF version_u8.tag = "None" THEN None
                      ELSE Some([number |-> number,
                                 version |-> Num(version_u8.val)])
             ELSE Some([number |-> number, version |-> Latest])

\* parse_numbervv: the number (4 or 5 digits) and the version that follows.
parse_numbervv(s) ==
    IF Len(s) < 4 THEN None
    ELSE IF ~all_ascii_digits(SubSeq(s, 1, 4)) THEN None
    ELSE LET number ==
               IF Len(s) >= 5 /\ is_ascii_digit(CharAt(s, 5))
               THEN SubSeq(s, 1, 5) ELSE SubSeq(s, 1, 4)
             after_number == SubSeq(s, Len(number) + 1, Len(s))
         IN  IF Len(s) > Len(number) /\ CharAt(after_number, 1) = "v"
             THEN LET consume ==
                        take_while_ascii_digit(
                            SubSeq(after_number, 2, Len(after_number)))
                      version_u8 == parse_int(consume, FALSE, 0, U8_MAX)
                  IN  IF version_u8.tag = "None" THEN None
                      ELSE Some([number |-> number,
                                 version |-> Num(version_u8.val)])
             ELSE Some([number |-> number, version |-> Latest])

(***************************************************************************)
(* ArticleId, ArticleIdV1, ArticleIdV2 (article_id/).                       *)
(***************************************************************************)
MIN_MONTH == 1

MAX_MONTH == 12

V1_MIN_YEAR == 1991

V1_MAX_YEAR == 2007

V1_DIGITS == 3

V2_MIN_YEAR == 2007

V2_MAX_YEAR == 2099

MIN_NUM_DIGITS == 4

MAX_NUM_DIGITS == 5

\* ArticleIdV1::new
ArticleIdV1_new(category, year, month, number, version) ==
    [category |-> category, year |-> year, month |-> month,
     number |-> number, version |-> version]

\* ArticleIdV2::new
ArticleIdV2_new(year, month, number, version) ==
    [year |-> year, month |-> month, number |-> number, version |-> version]

\* ArticleId::V1 and ArticleId::V2
ArticleId_V1(id) == [variant |-> "V1", id |-> id]

ArticleId_V2(id) == [variant |-> "V2", id |-> id]

\* ArticleIdV1::try_new with the last year excluded from the range.
ArticleIdV1_try_new_exclusive(category, year, month, number, version) ==
    IF ~(year >= V1_MIN_YEAR /\ year < V1_MAX_YEAR)
    THEN Err("InvalidYear")
    ELSE IF ~(month >= MIN_MONTH /\ month <= MAX_MONTH)
    THEN Err("InvalidMonth")
    ELSE LET length_check == Len(number) = V1_DIGITS
             digit_check  == all_ascii_digits(number)
         IN  IF ~length_check \/ ~digit_check
             THEN Err("ExpectedNumberV1")
             ELSE Ok(ArticleIdV1_new(category, year, month, number, version))

\* ArticleIdV1::try_new
ArticleIdV1_try_new(category, year, month, number, version) ==
    IF ~(year >= V1_MIN_YEAR /\ year <= V1_MAX_YEAR)
    THEN Err("InvalidYear")
    ELSE IF ~(month >= MIN_MONTH /\ month <= MAX_MONTH)
    THEN Err("InvalidMonth")
    ELSE LET length_check == Len(number) = V1_DIGITS
             digit_check  == all_ascii_digits(number)
         IN  IF ~length_check \/ ~digit_check
             THEN Err("ExpectedNumberV1")
             ELSE Ok(ArticleIdV1_new(category, year, month, number, version))

\* ArticleIdV2::try_new rejecting a number only when both checks fail.
ArticleIdV2_try_new_both(year, month, number, version) ==
    IF ~(year >= V2_MIN_YEAR /\ year <= V2_MAX_YEAR)
    THEN Err("InvalidYear")
    ELSE IF ~(month >= MIN_MONTH /\ month <= MAX_MONTH)
    THEN Err("InvalidMonth")
    ELSE LET length_check == /\ Len(number) >= MIN_NUM_DIGITS
                             /\ Len(number) <= MAX_NUM_DIGITS
             digit_check  == all_ascii_digits(number)
         IN  IF ~length_check /\ ~digit_check
             THEN Err("InvalidId")
             ELSE Ok(ArticleIdV2_new(year, month, number, version))

\* ArticleIdV2::try_new
ArticleIdV2_try_new(year, month, number, version) ==
    IF ~(year >= V2_MIN_YEAR /\ year <= V2_MAX_YEAR)
    THEN Err("InvalidYear")
    ELSE IF ~(month >= MIN_MONTH /\ month <= MAX_MONTH)
    THEN Err("InvalidMonth")
    ELSE LET length_check == /\ Len(number) >= MIN_NUM_DIGITS
                             /\ Len(number) <= MAX_NUM_DIGITS
             digit_check  == all_ascii_digits(number)
         IN  IF ~length_check \/ ~digit_check
             THEN Err("InvalidId")
             ELSE Ok(ArticleIdV2_new(year, month, number, version))

\* as_unique_ident with the month written without zero padding.
as_unique_ident_unpadded(year, month, number, has_period) ==
    LET year_str == to_string(year)
    IN  IF Len(year_str) < 2 THEN Panic
        ELSE LET half_year    == SubSeq(year_str, 3, Len(year_str))
                 maybe_period == IF has_period THEN "." ELSE ""
             IN  IF Len(number) = 4
                 THEN Ok(fmt_str_width(half_year, 2) \o to_string(month)
                         \o maybe_period \o fmt_str_width(number, 4))
                 ELSE Ok(fmt_str_width(half_year, 2) \o to_string(month)
                         \o maybe_period \o fmt_str_width(number, 5))

\* as_unique_ident (article_id/mod.rs): split_at(2) aborts on a year of
\* fewer than two characters.
as_unique_ident(year, month, number, has_period) ==
    LET year_str == to_string(year)
    IN  IF Len(year_str) < 2 THEN Panic
        ELSE LET half_year    == SubSeq(year_str, 3, Len(year_str))
                 maybe_period == IF has_period THEN "." ELSE ""
             IN  IF Len(number) = 4
                 THEN Ok(fmt_str_width(half_year, 2) \o fmt_int_02(month)
                         \o maybe_period \o fmt_str_width(number, 4))
                 ELSE Ok(fmt_str_width(half_year, 2) \o fmt_int_02(month)
                         \o maybe_period \o fmt_str_width(number, 5))

\* ArticleIdV2::as_unique_ident
ArticleIdV2_as_unique_ident(id) ==
    as_unique_ident(id.year, id.month, id.number, TRUE)

\* impl Display for ArticleIdV2
ArticleIdV2_fmt(id) ==
    LET ident == ArticleIdV2_as_unique_ident(id)
    IN  IF ident.tag # "Ok" THEN Panic
        ELSE Ok("arXiv:" \o ident.val \o ArticleVersion_fmt(id.version))

(***************************************************************************)
(* ArticleIdParser (article_id/parser.rs).                                  *)
(***************************************************************************)
I16_MIN == -32768

I16_MAX == 32767

I8_MIN == -128

I8_MAX == 127

\* ArticleIdParser::full_year with the century boundary one year late.
full_year_late(scheme, year) ==
    IF scheme = "V1"
    THEN IF year > 91 /\ year <= 99 THEN 1900 + year ELSE 2000 + year
    ELSE 2000 + year

\* ArticleIdParser::full_year
full_year(scheme, year) ==
    IF scheme = "V1"
    THEN IF year >= 91 /\ year <= 99 THEN 1900 + year ELSE 2000 + year
    ELSE 2000 + year

\* ArticleIdParser::parse_number: Ok of the number and the rest of the text.
parse_number(scheme, s) ==
    IF scheme = "V1"
    THEN IF Len(s) < 3 THEN Panic
         ELSE LET id == SubSeq(s, 1, 3)
              IN  IF ~all_ascii_digits(id) THEN Err("ExpectedNumberV1")
                  ELSE Ok([value |-> SubSeq(s, 1, 3),
                           rest_str |-> SubSeq(s, 4, Len(s))])
    ELSE IF Len(s) < 1 THEN Panic
         ELSE IF SubSeq(s, 1, 1) # "." THEN Err("ExpectedDot")
         ELSE IF Len(s) < 5 THEN Panic
         ELSE LET first4 == SubSeq(s, 2, 5)
              IN  IF ~all_ascii_digits(first4) THEN Err("ExpectedNumberV2")
                  ELSE IF Len(s) >= 6 /\ is_ascii_digit(CharAt(s, 6))
                       THEN Ok([value |-> SubSeq(s, 2, 6),
                                rest_str |-> SubSeq(s, 7, Len(s))])
                       ELSE Ok([value |-> SubSeq(s, 2, 5),
                                rest_str |-> SubSeq(s, 6, Len(s))])

\* ArticleIdParser::parse, lines 95-118: the date, the number, the version
\* and the validated construction of the scheme's variant.
parse_tail(scheme, category, rest_str) ==
    IF Len(rest_str) < 2 THEN Panic
    ELSE LET year2 == parse_int(SubSeq(rest_str, 1, 2), TRUE, I16_MIN, I16_MAX)
         IN
    IF year2.tag # "Some" THEN Err("InvalidYear")
    ELSE LET year4 == full_year(scheme, year2.val)
         IN
    IF Len(rest_str) < 4 THEN Panic
    ELSE LET month == parse_int(SubSeq(rest_str, 3, 4), TRUE, I8_MIN, I8_MAX)
         IN
    IF month.tag # "Some" THEN Err("InvalidMonth")
    ELSE LET after_date_str == SubSeq(rest_str, 5, Len(rest_str))
             number         == parse_number(scheme, after_date_str)
         IN
    IF number.tag # "Ok" THEN number
    ELSE LET version == ArticleVersion_from_str(number.val.rest_str)
         IN
    IF version.tag # "Ok" THEN Err("InvalidVersion")
    ELSE IF scheme = "V1"
    THEN LET id == ArticleIdV1_try_new(category, year4, month.val,
                                       number.val.value, version.val)
         IN  IF id.tag = "Ok" THEN Ok(ArticleId_V1(id.val)) ELSE id
    ELSE LET id == ArticleIdV2_try_new(year4, month.val, number.val.value,
                                       version.val)
         IN  IF id.tag = "Ok" THEN Ok(ArticleId_V2(id.val)) ELSE id

\* ArticleIdParser::parse that follows the first character after the
\* prefix whatever the scheme is.
parse_by_lookahead(scheme, id) ==
    LET colon == find(id, ":")
    IN
    IF colon = 0 THEN Err("ExpectedPrefix")
    ELSE LET prefix       == SubSeq(id, 1, colon - 1)
             after_prefix == SubSeq(id, colon + 1, Len(id))
             is_likely_category ==
                 /\ Len(after_prefix) > 0
                 /\ is_ascii_alphabetic(CharAt(after_prefix, 1))
         IN
    IF prefix # "arXiv" THEN Err("ExpectedPrefix")
    ELSE IF is_likely_category
    THEN LET slash == find(after_prefix, "/")
         IN
         IF slash = 0 THEN Err("ExpectedSlash")
         ELSE LET category ==
                      CategoryId_try_from(SubSeq(after_prefix, 1, slash - 1))
                  numbervv_str ==
                      SubSeq(after_prefix, slash + 1, Len(after_prefix))
              IN
         IF category.tag # "Ok" THEN Err("ExpectedCategory")
         ELSE parse_tail("V1", category.val, numbervv_str)
    ELSE parse_tail("V2", None, after_prefix)

\* ArticleIdParser::parse; scheme is "None", "V1" or "V2".
parse(scheme, id) ==
    LET colon == find(id, ":")
    IN
    IF colon = 0 THEN Err("ExpectedPrefix")
    ELSE LET prefix       == SubSeq(id, 1, colon - 1)
             after_prefix == SubSeq(id, colon + 1, Len(id))
             is_likely_category ==
                 /\ Len(after_prefix) > 0
                 /\ is_ascii_alphabetic(CharAt(after_prefix, 1))
         IN
    IF prefix # "arXiv" THEN Err("ExpectedPrefix")
    ELSE IF scheme \in {"None", "V1"}
    THEN IF ~is_likely_category THEN Err("ExpectedCategory")
         ELSE LET slash == find(after_prefix, "/")
              IN
         IF slash = 0 THEN Err("ExpectedSlash")
         ELSE LET category ==
                      CategoryId_try_from(SubSeq(after_prefix, 1, slash - 1))
                  numbervv_str ==
                      SubSeq(after_prefix, slash + 1, Len(after_prefix))
              IN
         IF category.tag # "Ok" THEN Err("ExpectedCategory")
         ELSE parse_tail("V1", category.val, numbervv_str)
    ELSE IF is_likely_category THEN Err("ExpectedCategory")
         ELSE parse_tail("V2", None, after_prefix)

\* impl TryFrom<&str> for ArticleId
ArticleId_try_from(value) == parse("None", value)

\* impl TryFrom<&str> for ArticleIdV1: as_v1 aborts on the other variant.
ArticleIdV1_try_from(value) ==
    LET r == parse("V1", value)
    IN  IF r.tag # "Ok" THEN r
        ELSE IF r.val.variant = "V1" THEN Ok(r.val.id) ELSE Panic

\* impl TryFrom<&str> for ArticleIdV2: as_v2 aborts on the other variant.
ArticleIdV2_try_from(value) ==
    LET r == parse("V2", value)
    IN  IF r.tag # "Ok" THEN r
        ELSE IF r.val.variant = "V2" THEN Ok(r.val.id) ELSE Panic

(***************************************************************************)
(* ArxivStamp (stamp.rs).  A date is a calendar date of the `time` crate;   *)
(* the identifier and the category of a stamp are the types ArxivId<'a>     *)
(* and ArxivCategoryId, which stamp.rs imports from the crate root.         *)
(***************************************************************************)
Date_new(year, month, day) == [year |-> year, month |-> month, day |-> day]

is_leap_year(year) ==
    /\ year % 4 = 0
    /\ (year % 100 # 0 \/ year % 400 = 0)

days_in_month(year, month) ==
    CASE month \in {1, 3, 5, 7, 8, 10, 12} -> 31
      [] month \in {4, 6, 9, 11}           -> 30
      [] OTHER -> IF is_leap_year(year) THEN 29 ELSE 28

\* Date::from_calendar_date: the range and calendar validation of a date.
Date_is_valid(year, month, day) ==
    /\ month \in 1..12
    /\ day >= 1
    /\ day <= days_in_month(year, month)

\* The names `[month repr:short]` of the time crate reads, January first.
MONTH_SHORT ==
    <<"Jan", "Feb", "Mar", "Apr", "May", "Jun",
      "Jul", "Aug", "Sep", "Oct", "Nov", "Dec">>

\* month_as_abbr
month_as_abbr(month) ==
    CASE month = 1  -> "Jan"
      [] month = 2  -> "Feb"
      [] month = 3  -> "Mar"
      [] month = 4  -> "Apr"
      [] month = 5  -> "May"
      [] month = 6  -> "June"
      [] month = 7  -> "July"
      [] month = 8  -> "Aug"
      [] month = 9  -> "Sept"
      [] month = 10 -> "Oct"
      [] month = 11 -> "Nov"
      [] month = 12 -> "Dec"

\* parse_date: Date::parse with "[day padding:none] [month repr:short]
\* [year]": one or two digits of day, a space, a short month name, a space,
\* four digits of year and nothing after them, then the calendar validation.
parse_date(date_str) ==
    LET n    == Len(date_str)
        dlen == IF n >= 2 /\ is_ascii_digit(CharAt(date_str, 1))
                          /\ is_ascii_digit(CharAt(date_str, 2)) THEN 2
                ELSE IF n >= 1 /\ is_ascii_digit(CharAt(date_str, 1)) THEN 1
                ELSE 0
    IN  IF dlen = 0 \/ n # dlen + 9 THEN Err("InvalidDate")
        ELSE LET day        == Decimal(SubSeq(date_str, 1, dlen))
                 month_str  == SubSeq(date_str, dlen + 2, dlen + 4)
                 year_str   == SubSeq(date_str, dlen + 6, dlen + 9)
             IN  IF \/ CharAt(date_str, dlen + 1) # " "
                    \/ CharAt(date_str, dlen + 5) # " "
                    \/ ~(\E m \in 1..12 : MONTH_SHORT[m] = month_str)
                    \/ ~all_ascii_digits(year_str)
                 THEN Err("InvalidDate")
                 ELSE LET month == CHOOSE m \in 1..12 :
                                       MONTH_SHORT[m] = month_str
                          year  == Decimal(year_str)
                      IN  IF Date_is_valid(year, month, day)
                          THEN Ok(Date_new(year, month, day))
                          ELSE Err("InvalidDate")

\* brackets_match with a closing bracket of any kind.
brackets_match_any(s) ==
    /\ Len(s) >= 1
    /\ CharAt(s, 1) = "["

\* brackets_match
brackets_match(s) ==
    /\ Len(s) >= 1
    /\ CharAt(s, 1) = "["
    /\ CharAt(s, Len(s)) = "]"

\* parse_brackets: a text that matches has two characters or more, so the
\* slice s[1..s.len() - 1] is in range.
parse_brackets(s) ==
    IF brackets_match(s) THEN Ok(SubSeq(s, 2, Len(s) - 1)) ELSE Err("()")

\* ArxivId::try_from(&str), the identifier of a stamp: the dispatch on the
\* character after the prefix, then the parser of the scheme.
ArxivId_try_from(s) ==
    LET colon == find(s, ":")
        after_prefix == SubSeq(s, colon + 1, Len(s))
    IN  IF /\ colon # 0
           /\ Len(after_prefix) > 0
           /\ is_ascii_alphabetic(CharAt(after_prefix, 1))
        THEN parse("V1", s)
        ELSE parse("V2", s)

\* Display of the identifier of a stamp (a new-scheme identifier): "arXiv:",
\* the unique identifier and the version suffix.
ArxivId_fmt(id) == ArticleIdV2_fmt(id.id)

\* ArxivCategoryId::from_str: the text is split on its first dot, the archive
\* is parsed and the subject is looked up in the archive's table.
ArxivCategoryId_from_str(s) ==
    LET dot         == find(s, ".")
        archive_str == IF dot = 0 THEN s ELSE SubSeq(s, 1, dot - 1)
        subject     == IF dot = 0 THEN "" ELSE SubSeq(s, dot + 1, Len(s))
        archive     == Archive_from_str(archive_str)
    IN  IF archive.tag # "Ok" THEN Err("InvalidArchive")
        ELSE IF ~Archive_is_valid_subject(archive.val, subject)
        THEN Err("InvalidArchiveSubject")
        ELSE Ok(CategoryId_new(Group_from(archive.val), archive.val, subject))

\* Display of ArxivCategoryId: the archive alone when the subject is empty.
ArxivCategoryId_fmt(c) ==
    IF c.subject = "" THEN Archive_fmt(c.archive)
    ELSE Archive_fmt(c.archive) \o "." \o c.subject

\* ArxivStamp::new
ArxivStamp_new(id, category, submitted) ==
    [id |-> id, category |-> category, submitted |-> submitted]

\* impl Display for ArxivStamp
ArxivStamp_fmt(stamp) ==
    LET id_str == ArxivId_fmt(stamp.id)
    IN  IF id_str.tag # "Ok" THEN Panic
        ELSE LET partial_stamp_str ==
                     IF stamp.category.tag = "Some"
                     THEN id_str.val \o " ["
                          \o ArxivCategoryId_fmt(stamp.category.val) \o "]"
                     ELSE id_str.val
             IN  Ok(partial_stamp_str \o " " \o to_string(stamp.submitted.day)
                    \o " " \o month_as_abbr(stamp.submitted.month)
                    \o " " \o to_string(stamp.submitted.year))

\* The date of a stamp text and the stamp built from it (the `?` after the
\* if/else of try_from and its last line).
ArxivStamp_with_date(id, category, date) ==
    IF date.tag # "Ok" THEN date
    ELSE Ok(ArxivStamp_new(id, category, date.val))

\* impl TryFrom<&str> for ArxivStamp in which a second part that does not
\* start with a bracket is an invalid category.
ArxivStamp_try_from_mandatory(s) ==
    LET space == find(s, " ")
    IN  IF space = 0 THEN Err("NotEnoughComponents")
        ELSE LET id == ArxivId_try_from(SubSeq(s, 1, space - 1))
             IN  IF id.tag = "Panic" THEN Panic
                 ELSE IF id.tag # "Ok"
                 THEN [tag |-> "Err", err |-> "InvalidArxivId", inner |-> id.err]
                 ELSE Err("InvalidCategory")

\* impl TryFrom<&str> for ArxivStamp: parts and category_date are the two
\* splitn(2, ' '); category_date[1] aborts when there is no second space.
ArxivStamp_try_from(s) ==
    LET space == find(s, " ")
    IN
    IF space = 0 THEN Err("NotEnoughComponents")
    ELSE LET part0 == SubSeq(s, 1, space - 1)
             part1 == SubSeq(s, space + 1, Len(s))
             id    == ArxivId_try_from(part0)
         IN
    IF id.tag = "Panic" THEN Panic
    ELSE IF id.tag # "Ok"
    THEN [tag |-> "Err", err |-> "InvalidArxivId", inner |-> id.err]
    ELSE LET part2_is_category == Len(part1) >= 1 /\ CharAt(part1, 1) = "["
         IN
    IF part2_is_category
    THEN LET space2          == find(part1, " ")
             category_date0  == IF space2 = 0 THEN part1
                                ELSE SubSeq(part1, 1, space2 - 1)
             str_in_brackets == parse_brackets(category_date0)
         IN
         IF str_in_brackets.tag # "Ok" THEN Err("InvalidCategory")
         ELSE LET parsed_category ==
                      ArxivCategoryId_from_str(str_in_brackets.val)
              IN
         IF parsed_category.tag # "Ok" THEN Err("InvalidCategory")
         ELSE IF space2 = 0 THEN Panic
         ELSE ArxivStamp_with_date(
                  id.val, Some(parsed_category.val),
                  parse_date(SubSeq(part1, space2 + 1, Len(part1))))
    ELSE ArxivStamp_with_date(id.val, None, parse_date(part1))

(***************************************************************************)
(* The setters of the version (article_id/v2.rs).                           *)
(***************************************************************************)
\* ArticleIdV2::set_version
ArticleIdV2_set_version(id, version) == [id EXCEPT !.version = Num(version)]

\* ArticleIdV2::set_latest that leaves the version as it is.
ArticleIdV2_set_latest_kept(id) == id

\* ArticleIdV2::set_latest
ArticleIdV2_set_latest(id) == [id EXCEPT !.version = Latest]

(***************************************************************************)
(* ArticleId of identifier.rs: the identifier of the new scheme alone.      *)
(***************************************************************************)
\* ArticleId::new (identifier.rs)
identifier_ArticleId_new(year, month, number, version) ==
    [year |-> year, month |-> month, number |-> number, version |-> version]

\* ArticleId::try_new (identifier.rs)
identifier_ArticleId_try_new(year, month, number, version) ==
    IF ~(year >= V2_MIN_YEAR /\ year <= V2_MAX_YEAR)
    THEN Err("InvalidYear")
    ELSE IF ~(month >= MIN_MONTH /\ month <= MAX_MONTH)
    THEN Err("InvalidMonth")
    ELSE LET length_check == /\ Len(number) >= MIN_NUM_DIGITS
                             /\ Len(number) <= MAX_NUM_DIGITS
             digit_check  == all_ascii_digits(number)
         IN  IF ~length_check \/ ~digit_check
             THEN Err("InvalidId")
             ELSE Ok(identifier_ArticleId_new(year, month, number, version))

\* ArticleId::set_version (identifier.rs)
identifier_ArticleId_set_version(id, version) ==
    [id EXCEPT !.version = Num(version)]

\* ArticleId::set_latest (identifier.rs)
identifier_ArticleId_set_latest(id) == [id EXCEPT !.version = Latest]

\* ArticleId::as_unique_ident (identifier.rs): split_at(2) aborts on a year
\* of fewer than two characters.
identifier_ArticleId_as_unique_ident(id) ==
    LET year_str == to_string(id.year)
    IN  IF Len(year_str) < 2 THEN Panic
        ELSE LET half_year == SubSeq(year_str, 3, Len(year_str))
             IN  IF Len(id.number) = 4
                 THEN Ok(fmt_str_width(half_year, 2) \o fmt_int_02(id.month)
                         \o "." \o fmt_str_width(id.number, 4))
                 ELSE Ok(fmt_str_width(half_year, 2) \o fmt_int_02(id.month)
                         \o "." \o fmt_str_width(id.number, 5))

\* ArticleIdV1::as_unique_ident
ArticleIdV1_as_unique_ident(id) ==
    as_unique_ident(id.year, id.month, id.number, FALSE)

\* parse_numbervv of identifier.rs: the text of parse_numbervv of
\* article_version.rs, with the token 'v' named ArticleId::TOKEN_VERSION.
identifier_parse_numbervv(s) == parse_numbervv(s)

\* impl TryFrom<&str> for ArticleId (identifier.rs): split(':') and
\* split('.') must give two parts each; the slices date[0..2] and date[2..4]
\* abort on a date of fewer than four characters.
identifier_ArticleId_try_from(value) ==
    LET colon == find(value, ":")
    IN
    IF count(value, ":") + 1 # 2 \/ SubSeq(value, 1, colon - 1) # "arXiv"
    THEN Err("ExpectedBeginningLiteral")
    ELSE LET part1 == SubSeq(value, colon + 1, Len(value))
             dot   == find(part1, ".")
         IN
    IF count(part1, ".") + 1 # 2 THEN Err("ExpectedNumberVv")
    ELSE LET date     == SubSeq(part1, 1, dot - 1)
             numbervv == SubSeq(part1, dot + 1, Len(part1))
         IN
    IF Len(date) < 2 THEN Panic
    ELSE LET year == parse_int(SubSeq(date, 1, 2), TRUE, I16_MIN, I16_MAX)
         IN
    IF year.tag # "Some" THEN Err("InvalidYear")
    ELSE IF Len(date) < 4 THEN Panic
    ELSE LET month == parse_int(SubSeq(date, 3, 4), TRUE, I8_MIN, I8_MAX)
         IN
    IF month.tag # "Some" THEN Err("InvalidMonth")
    ELSE LET nv == identifier_parse_numbervv(numbervv)
         IN
    IF nv.tag # "Some" THEN Err("ExpectedNumberVv")
    ELSE identifier_ArticleId_try_new(year.val + 2000, month.val,
                                      nv.val.number, nv.val.version)

(***************************************************************************)
(* ArxivId of lib.rs: the identifier that owns its text.                    *)
(***************************************************************************)
ArxivId_MIN_YEAR == 2007

ArxivId_MAX_YEAR == 2099

U16_MAX == 65535

\* ArxivId::new_raw
ArxivId_new_raw(year, month, id, version) ==
    [year |-> year, month |-> month, id |-> id, version |-> version]

\* ArxivId::try_new
ArxivId_try_new(year, month, id, version) ==
    IF ~(year >= ArxivId_MIN_YEAR /\ year <= ArxivId_MAX_YEAR)
    THEN Err("InvalidYear")
    ELSE IF ~(month >= 1 /\ month <= 12)
    THEN Err("InvalidMonth")
    ELSE IF Len(id) < 4 \/ Len(id) > 5
    THEN Err("InvalidId")
    ELSE Ok(ArxivId_new_raw(year, month, id, version))

\* impl Display for ArxivId (lib.rs): split_at(2) aborts on a year of fewer
\* than two characters; the version is not written.
ArxivId_to_string(x) ==
    LET binding == to_string(x.year)
    IN  IF Len(binding) < 2 THEN Panic
        ELSE LET half_year == SubSeq(binding, 3, Len(binding))
             IN  IF Len(x.id) = 4
                 THEN Ok("arXiv:" \o fmt_str_width(half_year, 2)
                         \o fmt_int_02(x.month) \o "."
                         \o fmt_str_width(x.id, 4))
                 ELSE Ok("arXiv:" \o fmt_str_width(half_year, 2)
                         \o fmt_int_02(x.month) \o "."
                         \o fmt_str_width(x.id, 5))

\* parse_numbervv of lib.rs: split('v'); the number is the first part, the
\* version the second part when it parses as u8, and None otherwise.
ArxivId_parse_numbervv(s) ==
    LET v      == find(s, "v")
        number == IF v = 0 THEN s ELSE SubSeq(s, 1, v - 1)
    IN  IF v = 0 THEN [number |-> number, version |-> None]
        ELSE LET after  == SubSeq(s, v + 1, Len(s))
                 v2     == find(after, "v")
                 part1  == IF v2 = 0 THEN after ELSE SubSeq(after, 1, v2 - 1)
                 parsed_version == parse_int(part1, FALSE, 0, U8_MAX)
             IN  [number |-> number, version |-> parsed_version]

\* impl FromStr for ArxivId (lib.rs): the slices [0..2] and [2..4] abort on
\* a date part of fewer than four characters.
ArxivId_from_str(value) ==
    LET colon == find(value, ":")
    IN
    IF count(value, ":") + 1 # 2 \/ SubSeq(value, 1, colon - 1) # "arXiv"
    THEN Err("Syntax")
    ELSE LET part1 == SubSeq(value, colon + 1, Len(value))
             dot   == find(part1, ".")
         IN
    IF count(part1, ".") + 1 # 2 THEN Err("Syntax")
    ELSE LET date == SubSeq(part1, 1, dot - 1)
         IN
    IF Len(date) < 4 THEN Panic
    ELSE LET year  == parse_int(SubSeq(date, 1, 2), FALSE, 0, U16_MAX)
             month == parse_int(SubSeq(date, 3, 4), FALSE, 0, U8_MAX)
         IN
    IF year.tag # "Some" \/ month.tag # "Some" THEN Err("Syntax")
    ELSE LET nv == ArxivId_parse_numbervv(SubSeq(part1, dot + 1, Len(part1)))
         IN  ArxivId_try_new(year.val + 2000, month.val,
                             nv.number, nv.version)

(***************************************************************************)
(* The inputs of the operations.                                            *)
(***************************************************************************)
\* The longest number text given to the validated constructors.
MaxNumberLen == 6

\* The versions Num(0) .. Num(MaxVersion), with Num(255), are constructed.
MaxVersion == 2

NumberAlphabet == {"7", "a"}

RECURSIVE StrsOfLen(_)
StrsOfLen(n) ==
    IF n = 0 THEN {""}
    ELSE {s \o c : s \in StrsOfLen(n - 1), c \in NumberAlphabet}

NumberTexts ==
    UNION {StrsOfLen(n) : n \in 0..MaxNumberLen}
    \cup {"448", "0001", "00001", "12345", "0 01", "+123", "-1234"}

Versions == {Latest, Num(U8_MAX)} \cup {Num(n) : n \in 0..MaxVersion}

V2Years == {7, 2006, 2007, 2050, 2099, 2100, I16_MAX}

V1Years == {91, 1990, 1991, 2000, 2007, 2008, I16_MIN}

Months == {I8_MIN, 0, 1, 9, 12, 13, I8_MAX}

Truncations(s) == {SubSeq(s, 1, k) : k \in 0..Len(s)}

SubjectTexts ==
    {COMPSCI_TABLE[i] : i \in 1..Len(COMPSCI_TABLE)}
    \cup {MATH_TABLE[i] : i \in 1..Len(MATH_TABLE)}
    \cup {PHYSICS_TABLE[i] : i \in 1..Len(PHYSICS_TABLE)}
    \cup {"CO", "EP", "GA", "HE", "IM", "SR", "dis-nn", "mes-hall",
          "mtrl-sci", "other", "quant-gas", "soft", "stat-mech", "str-el",
          "supr-con", "EM", "GN", "TH", "AS", "IV", "SP", "SY", "AO", "CD",
          "CG", "PS", "SI", "BM", "CB", "MN", "NC", "OT", "PE", "QM", "SC",
          "TO", "CP", "EC", "MF", "PM", "PR", "RM", "ME", "ML"}
    \cup {"", "XX", "lg", "LG ", "L", "LGx", "foo", "LG.x", "zz-ph", "A"}

ArchiveTexts ==
    UNION {Truncations(Archive_fmt(a) \o ".") : a \in Archives}
    \cup {Archive_fmt(a) \o " " : a \in Archives}
    \cup {" " \o Archive_fmt(a) : a \in Archives}
    \cup {"CS", "Cs", "Astro-ph", "astro-PH", "astroph", "AstroPh", "ecot",
          "grqc", "q-bio.CB", "stats", "Math", "MATH", "hep", "hep-"}

CategoryTexts ==
    {Archive_fmt(a) \o "." \o t : a \in Archives, t \in SubjectTexts}
    \cup ArchiveTexts
    \cup {"ecot.LG", ".LG", ".", "cs..LG", "CS.LG", "cs.LG.", " cs.LG"}

Categories ==
    {CategoryId_try_new(a, t).val :
        <<a, t>> \in {<<"Cs", "LG">>, <<"GrQc", "">>}}

V2YearTexts == {"00", "06", "07", "50", "99", "+7", "-1", "x7"}

V2MonthTexts == {"00", "01", "12", "13", "+1", "1x"}

V2NumberTexts == {"0001", "00001", "123456", "00a1"}

VersionTexts == {"", "v1", "v255", "v256", "v", "x1"}

V2Texts ==
    {"arXiv:" \o yy \o mm \o "." \o nn \o vv :
        yy \in V2YearTexts, mm \in V2MonthTexts,
        nn \in V2NumberTexts, vv \in VersionTexts}

V1CategoryTexts ==
    {"cs.LG", "cond-mat", "cond-mat.soft", "gr-qc", "cs", "cs.XX", "xx.LG",
     "math.AG", "physics.optics", "q-bio.CB", "hep-th."}

V1YearTexts == {"00", "07", "08", "50", "90", "91", "99", "+5", "-9", "x1"}

V1MonthTexts == {"00", "01", "12", "13", "1x"}

V1NumberTexts == {"448", "44a", "4481"}

V1VersionTexts == {"", "v1", "v256", "x"}

V1Texts ==
    {"arXiv:" \o cc \o "/" \o yy \o mm \o nn \o vv :
        cc \in V1CategoryTexts, yy \in V1YearTexts, mm \in V1MonthTexts,
        nn \in V1NumberTexts, vv \in V1VersionTexts}

ArticleIdTexts ==
    V2Texts \cup V1Texts
    \cup Truncations("arXiv:1501.00001v1")
    \cup Truncations("arXiv:cs.LG/0001448v1")
    \cup Truncations("arXiv:cond-mat/0001448v1")
    \cup {"arXiv:2001.00001", "arXiv:0706.0001v1", "arXiv:9912.12345v2",
          "arxiv:2001.00001", "arXiv2001.00001", " arXiv:2001.00001",
          "arXiv::1501.00001", "arXiv:cs.LG0001448", "arXiv:.1501.00001",
          "arXiv:1501 00001", "arXiv:cs.LG/9107001", "arXiv:15010.0001"}

\* Every version a u8 can hold, and Latest.
AllVersions == {Latest} \cup {Num(n) : n \in 0..U8_MAX}

NumberVvNumbers == {"0001", "00001", "12345", "001", "00a1"}

NumberVvRemainders ==
    {"", "v0", "v1", "v01", "v255", "v256", "v", "x", "x1", "v1x", "v1v2",
     " v1", "V1", "v+1", "v-1", "vx", ".", "v1 "}

NumberVvTexts ==
    {n \o r : n \in NumberVvNumbers, r \in NumberVvRemainders}
    \cup Truncations("0001v1")

\* The two-digit years ArticleIdParser::parse can hand to full_year.
Year2s == -9..99

\* Stamps: identifiers of the new scheme, a category or none, and the valid
\* dates of every month of a few years.
StampIds ==
    {ArticleId_V2(ArticleIdV2_new(2007, 6, "0001", Num(1))),
     ArticleId_V2(ArticleIdV2_new(2020, 1, "00001", Latest)),
     ArticleId_V2(ArticleIdV2_new(2020, 11, "00001", Latest))}

StampCategories ==
    {None,
     Some(CategoryId_new(Group_from("QBio"), "QBio", "CB")),
     Some(CategoryId_new(Group_from("Cs"), "Cs", "LG")),
     Some(CategoryId_new(Group_from("GrQc"), "GrQc", ""))}

StampDates ==
    {Date_new(y, m, d) : y \in {2000, 2007, 2011, 2024}, m \in 1..12,
                         d \in {1, 9, 10, 28, 29, 30, 31}}

Stamps ==
    {ArxivStamp_new(id, c, date) :
        id \in StampIds, c \in StampCategories,
        date \in {dt \in StampDates : Date_is_valid(dt.year, dt.month, dt.day)}}

\* Stamp texts: an identifier, then nothing, one more component, or a
\* second component and a date.
StampIdTexts ==
    {"arXiv:2001.00001", "arXiv:0706.0001v1", "arXiv:2001.0000x",
     "2001.00001", ""}

StampCategoryTexts ==
    {"[cs.LG]", "[q-bio.CB]", "[gr-qc]", "[cs.LG", "cs.LG]", "cs.LG",
     "[cs.LG)", "[cs.XX]", "[zz.LG]", "[]"}

StampDateTexts ==
    {"1 Jan 2000", "1 Jun 2007", "31 Dec 2011", "29 Feb 2000", "29 Feb 2001",
     "32 Jan 2000", "0 Jan 2000", "1 Zan 2000", "1 June 2007", "1 Jan 200",
     "1Jan2000", ""}

StampTexts ==
    StampIdTexts
    \cup {id \o " " \o c : id \in StampIdTexts, c \in StampCategoryTexts}
    \cup {id \o " " \o d : id \in StampIdTexts, d \in StampDateTexts}
    \cup {id \o " " \o c \o " " \o d :
             id \in StampIdTexts, c \in StampCategoryTexts,
             d \in StampDateTexts}

\* The versions given to set_version.
SetVersions == {0, 1, U8_MAX}

\* The identifiers and versions of ArxivId of lib.rs.
ArxivIdNumbers == {"0001", "7878", "12345"}

ArxivIdVersions == {None, Some(0), Some(2), Some(U8_MAX)}

(***************************************************************************)
(* The operations of the library, each applied to one input.                *)
(***************************************************************************)
Init == call = <<"init", "", "">>

Call(name, a, r) ==
    call' = <<name, a, r>>

\* Archive::from_str(s)
ArchiveFromStr ==
    /\ op = "init"
    /\ \E s \in ArchiveTexts : Call("Archive::from_str", s, Archive_from_str(s))

\* archive.to_string()
ArchiveToString ==
    /\ op = "init"
    /\ \E a \in Archives : Call("Archive::to_string", a, Archive_fmt(a))

\* Archive::from_str(&archive.to_string())
ArchiveParseDisplayed ==
    /\ op = "Archive::to_string"
    /\ call' = <<"Archive::from_str(to_string)",
               arg,
               Archive_from_str(ret)>>

\* Group::from(archive)
GroupFrom ==
    /\ op = "init"
    /\ \E a \in Archives : Call("Group::from", a, Group_from(a))

\* CategoryId::try_new(archive, subject)
CategoryIdTryNew ==
    /\ op = "init"
    /\ \E a \in Archives, t \in SubjectTexts :
           Call("CategoryId::try_new", [archive |-> a, subject |-> t],
                CategoryId_try_new(a, t))

\* CategoryId::try_from(s)
CategoryIdTryFrom ==
    /\ op = "init"
    /\ \E s \in CategoryTexts :
           Call("CategoryId::try_from", s, CategoryId_try_from(s))

\* category.to_string() of a category that try_new returned
CategoryIdToString ==
    /\ op = "CategoryId::try_new"
    /\ ret.tag = "Some"
    /\ call' = <<"CategoryId::to_string",
               ret.val,
               CategoryId_fmt(ret.val)>>

\* CategoryId::try_from(&category.to_string())
CategoryIdParseDisplayed ==
    /\ op = "CategoryId::to_string"
    /\ call' = <<"CategoryId::try_from(to_string)",
               arg,
               CategoryId_try_from(ret)>>

\* archive.is_valid_subject(subject)
ArchiveIsValidSubject ==
    /\ op = "init"
    /\ \E a \in Archives, t \in SubjectTexts :
           Call("Archive::is_valid_subject", [archive |-> a, subject |-> t],
                Archive_is_valid_subject(a, t))

\* archive.can_omit_subjects()
ArchiveCanOmitSubjects ==
    /\ op = "init"
    /\ \E a \in Archives :
           Call("Archive::can_omit_subjects", a, can_omit_subjects(a))

\* parse_numbervv(s)
ParseNumberVv ==
    /\ op = "init"
    /\ \E s \in NumberVvTexts : Call("parse_numbervv", s, parse_numbervv(s))

\* version.to_string()
ArticleVersionToString ==
    /\ op = "init"
    /\ \E v \in AllVersions :
           Call("ArticleVersion::to_string", v, ArticleVersion_fmt(v))

\* parse_numbervv(&format!("{number}{version}"))
ParseNumberVvDisplayed ==
    /\ op = "ArticleVersion::to_string"
    /\ \E n \in {"0001", "12345"} :
           /\ call' = <<"parse_numbervv(to_string)",
                      [number |-> n, version |-> arg],
                      parse_numbervv(n \o ret)>>

\* ArticleIdV1::try_new(category, year, month, number, version)
ArticleIdV1TryNew ==
    /\ op = "init"
    /\ \E c \in Categories, y \in V1Years, m \in Months, n \in NumberTexts,
          v \in {Num(1)} :
           Call("ArticleIdV1::try_new",
                [category |-> c, year |-> y, month |-> m, number |-> n,
                 version |-> v],
                ArticleIdV1_try_new(c, y, m, n, v))

\* ArticleIdV2::try_new(year, month, number, version)
ArticleIdV2TryNew ==
    /\ op = "init"
    /\ \E y \in V2Years, m \in Months, n \in NumberTexts, v \in {Latest, Num(1)} :
           Call("ArticleIdV2::try_new",
                [year |-> y, month |-> m, number |-> n, version |-> v],
                ArticleIdV2_try_new(y, m, n, v))

\* id.to_string() of an identifier that ArticleIdV2::try_new returned
ArticleIdV2ToString ==
    /\ op = "init"
    /\ \E y \in V2_MIN_YEAR..V2_MAX_YEAR, m \in MIN_MONTH..MAX_MONTH,
          n \in {"0001", "12345"}, v \in Versions :
           LET id == ArticleIdV2_try_new(y, m, n, v)
           IN  /\ id.tag = "Ok"
               /\ Call("ArticleIdV2::to_string", id.val, ArticleIdV2_fmt(id.val))

\* ArticleIdV2::try_from(&id.to_string())
ArticleIdV2ParseDisplayed ==
    /\ op = "ArticleIdV2::to_string"
    /\ ret.tag = "Ok"
    /\ call' = <<"ArticleIdV2::try_from(to_string)",
               arg,
               ArticleIdV2_try_from(ret.val)>>

\* ArticleIdParser::full_year(scheme, year)
FullYear ==
    /\ op = "init"
    /\ \E sch \in {"V1", "V2"}, y \in Year2s :
           Call("ArticleIdParser::full_year", [scheme |-> sch, year |-> y],
                full_year(sch, y))

\* ArticleId::try_from(value)
ArticleIdTryFrom ==
    /\ op = "init"
    /\ \E s \in ArticleIdTexts :
           Call("ArticleId::try_from", s, ArticleId_try_from(s))

\* ArticleIdV1::try_from(value)
ArticleIdV1TryFrom ==
    /\ op = "init"
    /\ \E s \in ArticleIdTexts :
           Call("ArticleIdV1::try_from", s, ArticleIdV1_try_from(s))

\* ArticleIdV2::try_from(value)
ArticleIdV2TryFrom ==
    /\ op = "init"
    /\ \E s \in ArticleIdTexts :
           Call("ArticleIdV2::try_from", s, ArticleIdV2_try_from(s))

\* stamp.to_string()
ArxivStampToString ==
    /\ op = "init"
    /\ \E stamp \in Stamps :
           Call("ArxivStamp::to_string", stamp, ArxivStamp_fmt(stamp))

\* ArxivStamp::try_from(&stamp.to_string())
ArxivStampParseDisplayed ==
    /\ op = "ArxivStamp::to_string"
    /\ ret.tag = "Ok"
    /\ call' = <<"ArxivStamp::try_from(to_string)",
               arg,
               ArxivStamp_try_from(ret.val)>>

\* ArxivStamp::try_from(text)
ArxivStampTryFrom ==
    /\ op = "init"
    /\ \E text \in StampTexts :
           Call("ArxivStamp::try_from", text, ArxivStamp_try_from(text))

\* The identifier that a chain of setters started from.
Original == IF "original" \in DOMAIN arg THEN arg.original ELSE ret.val

\* id.set_version(n) on an identifier that ArticleIdV2::try_new returned,
\* after any number of set_version and set_latest.
ArticleIdV2SetVersion ==
    /\ op \in {"ArticleIdV2::try_new", "ArticleIdV2::set_version",
               "ArticleIdV2::set_latest"}
    /\ ret.tag = "Ok"
    /\ \E n \in SetVersions :
           call' = <<"ArticleIdV2::set_version",
                     [original |-> Original, version |-> n],
                     Ok(ArticleIdV2_set_version(ret.val, n))>>

\* id.set_latest() on such an identifier
ArticleIdV2SetLatest ==
    /\ op \in {"ArticleIdV2::try_new", "ArticleIdV2::set_version",
               "ArticleIdV2::set_latest"}
    /\ ret.tag = "Ok"
    /\ call' = <<"ArticleIdV2::set_latest",
                 [original |-> Original],
                 Ok(ArticleIdV2_set_latest(ret.val))>>

\* ArticleId::try_new(year, month, number, version) of identifier.rs
IdentifierTryNew ==
    /\ op = "init"
    /\ \E y \in V2Years, m \in Months, n \in NumberTexts, v \in {Latest, Num(1)} :
           Call("identifier::ArticleId::try_new",
                [year |-> y, month |-> m, number |-> n, version |-> v],
                identifier_ArticleId_try_new(y, m, n, v))

\* id.set_version(n) of identifier.rs
IdentifierSetVersion ==
    /\ op \in {"identifier::ArticleId::try_new",
               "identifier::ArticleId::set_version",
               "identifier::ArticleId::set_latest"}
    /\ ret.tag = "Ok"
    /\ \E n \in SetVersions :
           call' = <<"identifier::ArticleId::set_version",
                     [original |-> Original, version |-> n],
                     Ok(identifier_ArticleId_set_version(ret.val, n))>>

\* id.set_latest() of identifier.rs
IdentifierSetLatest ==
    /\ op \in {"identifier::ArticleId::try_new",
               "identifier::ArticleId::set_version",
               "identifier::ArticleId::set_latest"}
    /\ ret.tag = "Ok"
    /\ call' = <<"identifier::ArticleId::set_latest",
                 [original |-> Original],
                 Ok(identifier_ArticleId_set_latest(ret.val))>>

\* id.as_unique_ident() of an identifier that ArticleIdV1::try_from returned
ArticleIdV1AsUniqueIdent ==
    /\ op = "ArticleIdV1::try_from"
    /\ ret.tag = "Ok"
    /\ call' = <<"ArticleIdV1::as_unique_ident",
                 [text |-> arg, id |-> ret.val],
                 ArticleIdV1_as_unique_ident(ret.val)>>

\* id.as_unique_ident() of an identifier that ArticleIdV2::try_from returned
ArticleIdV2AsUniqueIdent ==
    /\ op = "ArticleIdV2::try_from"
    /\ ret.tag = "Ok"
    /\ call' = <<"ArticleIdV2::as_unique_ident",
                 [text |-> arg, id |-> ret.val],
                 ArticleIdV2_as_unique_ident(ret.val)>>

\* ArticleId::try_from(value) of identifier.rs
IdentifierTryFrom ==
    /\ op = "init"
    /\ \E s \in ArticleIdTexts :
           Call("identifier::ArticleId::try_from", s,
                identifier_ArticleId_try_from(s))

\* x.to_string() of a value that ArxivId::try_new of lib.rs returned
ArxivIdToString ==
    /\ op = "init"
    /\ \E y \in ArxivId_MIN_YEAR..ArxivId_MAX_YEAR, m \in 1..12,
          n \in ArxivIdNumbers, v \in ArxivIdVersions :
           LET x == ArxivId_try_new(y, m, n, v)
           IN  /\ x.tag = "Ok"
               /\ Call("ArxivId::to_string", x.val, ArxivId_to_string(x.val))

\* ArxivId::from_str(&x.to_string())
ArxivIdParseDisplayed ==
    /\ op = "ArxivId::to_string"
    /\ ret.tag = "Ok"
    /\ call' = <<"ArxivId::from_str(to_string)",
               arg,
               ArxivId_from_str(ret.val)>>

Next ==
    \/ ArchiveFromStr
    \/ ArchiveToString
    \/ ArchiveParseDisplayed
    \/ GroupFrom
    \/ CategoryIdTryNew
    \/ CategoryIdTryFrom
    \/ CategoryIdToString
    \/ CategoryIdParseDisplayed
    \/ ArchiveIsValidSubject
    \/ ArchiveCanOmitSubjects
    \/ ParseNumberVv
    \/ ArticleVersionToString
    \/ ParseNumberVvDisplayed
    \/ ArticleIdV1TryNew
    \/ ArticleIdV2TryNew
    \/ ArticleIdV2ToString
    \/ ArticleIdV2ParseDisplayed
    \/ FullYear
    \/ ArticleIdTryFrom
    \/ ArticleIdV1TryFrom
    \/ ArticleIdV2TryFrom
    \/ ArxivStampToString
    \/ ArxivStampParseDisplayed
    \/ ArxivStampTryFrom
    \/ ArticleIdV2SetVersion
    \/ ArticleIdV2SetLatest
    \/ IdentifierTryNew
    \/ IdentifierSetVersion
    \/ IdentifierSetLatest
    \/ ArticleIdV1AsUniqueIdent
    \/ ArticleIdV2AsUniqueIdent
    \/ IdentifierTryFrom
    \/ ArxivIdToString
    \/ ArxivIdParseDisplayed

Spec == Init /\ [][Next]_vars

(***************************************************************************)
(* Properties.                                                              *)
(***************************************************************************)
ParseOps ==
    {"ArticleId::try_from", "ArticleIdV1::try_from", "ArticleIdV2::try_from"}

HasPrefix(text) == Len(text) >= 6 /\ SubSeq(text, 1, 6) = "arXiv:"

\* The first character after the prefix is an ASCII letter.
LetterAfterPrefix(text) ==
    /\ HasPrefix(text)
    /\ Len(text) >= 7
    /\ is_ascii_alphabetic(CharAt(text, 7))

\* The identifier and the scheme of a successful parse.
ParsedId == IF op = "ArticleId::try_from" THEN ret.val.id ELSE ret.val

ParsedScheme ==
    IF op = "ArticleId::try_from" THEN ret.val.variant
    ELSE IF op = "ArticleIdV1::try_from" THEN "V1" ELSE "V2"

\* The text from the YYMM date on: after the slash in the old scheme,
\* after the prefix in the new one.
TailText(text, scheme) ==
    IF scheme = "V1"
    THEN SubSeq(text, find(text, "/") + 1, Len(text))
    ELSE SubSeq(text, 7, Len(text))

TwoDigits(t) == Len(t) = 2 /\ all_ascii_digits(t)

ValidVersionText(t) ==
    \/ Len(t) = 0
    \/ /\ Len(t) >= 2
       /\ CharAt(t, 1) = "v"
       /\ all_ascii_digits(SubSeq(t, 2, Len(t)))
       /\ Decimal(SubSeq(t, 2, Len(t))) <= 255

\* C1: the scheme-agnostic parse (ArticleId::try_from) chooses the variant
\* from the text alone: a letter right after "arXiv:" makes it an old-scheme
\* parse, anything else a new-scheme parse, so that a text the new-scheme
\* parser accepts is accepted with the same id; "arXiv:2001.00001" yields
\* Ok(V2).
C1_VariantFromText ==
    (op = "ArticleId::try_from" /\ HasPrefix(arg)) =>
        /\ LetterAfterPrefix(arg) =>
              (ret.tag = "Ok" => ret.val.variant = "V1")
        /\ (~LetterAfterPrefix(arg) /\ parse("V2", arg).tag = "Ok") =>
              ret = parse("V2", arg)
        /\ arg = "arXiv:2001.00001" =>
              (ret.tag = "Ok" /\ ret.val.variant = "V2")

\* C2: for every new-scheme id accepted by ArticleIdV2::try_new, parsing its
\* Display text with the new-scheme parser returns Ok of an equal id.
C2_V2RoundTrip ==
    op = "ArticleIdV2::try_from(to_string)" => ret = Ok(arg)

C2_Witness ==
    /\ op = "ArticleIdV2::try_from(to_string)"
    /\ arg.version = Num(U8_MAX)
    /\ Len(arg.number) = 5
    /\ arg.month = 9
    /\ ret.tag = "Ok"

\* C3: an old-scheme text whose category is a bare archive with no subject,
\* "arXiv:<archive>/YYMMNNN[vV]", parses to a V1 id with that archive, no
\* subject, the full year, the month, the number and the version; for
\* "arXiv:cond-mat/0001448v1": CondMat, 2000, 1, "448", Num(1).
C3_BareArchiveParses ==
    \A a \in Archives :
        (/\ op \in {"ArticleId::try_from", "ArticleIdV1::try_from"}
         /\ arg = "arXiv:" \o Archive_fmt(a) \o "/0001448v1") =>
            /\ ret.tag = "Ok"
            /\ ParsedScheme = "V1"
            /\ ParsedId.category.archive = a
            /\ Len(ParsedId.category.subject) = 0
            /\ ParsedId.year = 2000
            /\ ParsedId.month = 1
            /\ ParsedId.number = "448"
            /\ ParsedId.version = Num(1)

\* C4: every parse operation is total: for every text it returns Ok or Err
\* and never aborts.
C4_ParseTotal ==
    op \in ParseOps \cup {"CategoryId::try_from", "Archive::from_str"} =>
        ret.tag \in {"Ok", "Err"}

\* C5: a new-scheme text that ends after a valid YYMM date, such as
\* "arXiv:1501", is rejected with ExpectedNumberV2.
C5_MissingNumber ==
    (/\ op = "ArticleIdV2::try_from"
     /\ HasPrefix(arg)
     /\ Len(arg) = 10
     /\ all_ascii_digits(SubSeq(arg, 7, 10))) =>
        ret = Err("ExpectedNumberV2")

\* C6: the two-digit year yy is expanded to 1900+yy for yy in 91..99 of the
\* old scheme and to 2000+yy in every other case of the old scheme and in
\* every case of the new scheme; a parsed identifier carries that year.
C6_Expanded(scheme, yy) ==
    IF scheme = "V1" /\ yy \in 91..99 THEN 1900 + yy ELSE 2000 + yy

C6_YearExpansion ==
    /\ op = "ArticleIdParser::full_year" =>
          ret = C6_Expanded(arg.scheme, arg.year)
    /\ (op \in ParseOps /\ ret.tag = "Ok") =>
          LET yy == parse_int(SubSeq(TailText(arg, ParsedScheme), 1, 2),
                              TRUE, -99, 99)
          IN  /\ yy.tag = "Some"
              /\ ParsedId.year = C6_Expanded(ParsedScheme, yy.val)

C6_Witness ==
    /\ op = "ArticleIdV1::try_from"
    /\ ret.tag = "Ok"
    /\ SubSeq(TailText(arg, "V1"), 1, 2) = "91"
    /\ ret.val.year = 1991

\* C7: ArticleIdV2::try_new returns Ok exactly when 2007 <= year <= 2099,
\* 1 <= month <= 12 and the number is 4 or 5 ASCII digits; otherwise the
\* first failing check in the order InvalidYear, InvalidMonth, InvalidId.
C7_Expected(a) ==
    IF a.year < 2007 \/ a.year > 2099 THEN Err("InvalidYear")
    ELSE IF a.month < 1 \/ a.month > 12 THEN Err("InvalidMonth")
    ELSE IF ~(Len(a.number) \in {4, 5} /\ all_ascii_digits(a.number))
    THEN Err("InvalidId")
    ELSE Ok(a)

C7_V2TryNew ==
    op = "ArticleIdV2::try_new" => ret = C7_Expected(arg)

C7_Witness ==
    /\ op = "ArticleIdV2::try_new"
    /\ arg.year = 2099
    /\ arg.month = 12
    /\ Len(arg.number) = 5
    /\ ~all_ascii_digits(arg.number)
    /\ ret = Err("InvalidId")

\* C8: ArticleIdV1::try_new returns Ok exactly when 1991 <= year <= 2007,
\* 1 <= month <= 12 and the number is exactly 3 ASCII digits; otherwise the
\* first failing check in the order InvalidYear, InvalidMonth,
\* ExpectedNumberV1.  So no old-scheme text with a two-digit year in 08..90
\* is accepted, and one whose category, month, number and version are read
\* is rejected with InvalidYear.
C8_Expected(a) ==
    IF a.year < 1991 \/ a.year > 2007 THEN Err("InvalidYear")
    ELSE IF a.month < 1 \/ a.month > 12 THEN Err("InvalidMonth")
    ELSE IF ~(Len(a.number) = 3 /\ all_ascii_digits(a.number))
    THEN Err("ExpectedNumberV1")
    ELSE Ok(a)

C8_YearOutOfRange(text) ==
    /\ LetterAfterPrefix(text)
    /\ find(text, "/") > 0
    /\ LET tail == TailText(text, "V1")
       IN  /\ Len(tail) >= 2
           /\ TwoDigits(SubSeq(tail, 1, 2))
           /\ Decimal(SubSeq(tail, 1, 2)) \in 8..90

C8_Tokenized(text) ==
    LET tail == TailText(text, "V1")
    IN  /\ CategoryId_try_from(SubSeq(text, 7, find(text, "/") - 1)).tag = "Ok"
        /\ Len(tail) >= 7
        /\ TwoDigits(SubSeq(tail, 3, 4))
        /\ all_ascii_digits(SubSeq(tail, 5, 7))
        /\ ValidVersionText(SubSeq(tail, 8, Len(tail)))

C9_ArchiveTokens ==
    {"astro-ph", "cond-mat", "cs", "econ", "eess", "gr-qc", "hep-ex",
     "hep-lat", "hep-ph", "hep-th", "math-ph", "math", "nlin", "nucl-ex",
     "nucl-th", "physics", "q-bio", "q-fin", "quant-ph", "stat"}

C9_ArchiveInverse ==
    /\ op = "Archive::from_str(to_string)" => ret = Ok(arg)
    /\ op = "Archive::from_str" =>
          /\ ret.tag = "Ok" => arg = Archive_fmt(ret.val)
          /\ arg \notin C9_ArchiveTokens => ret.tag = "Err"

C9_Witness ==
    /\ op = "Archive::from_str(to_string)"
    /\ arg = "MathPh"
    /\ ret = Ok("MathPh")

\* C10: Group::from maps Cs, Econ, Eess, Math, QBio, QFin and Stat to the
\* group of the same name and every other archive to Physics, and the group
\* of every CategoryId returned by try_new or by parsing is that of its
\* archive.
C10_GroupOf(a) ==
    IF a \in {"Cs", "Econ", "Eess", "Math", "QBio", "QFin", "Stat"}
    THEN a ELSE "Physics"

C10_GroupOfArchive ==
    /\ op = "Group::from" => ret = C10_GroupOf(arg)
    /\ (op = "CategoryId::try_new" /\ ret.tag = "Some") =>
          (ret.val.archive = arg.archive
              /\ ret.val.group = C10_GroupOf(ret.val.archive))
    /\ (op = "CategoryId::try_from" /\ ret.tag = "Ok") =>
          ret.val.group = C10_GroupOf(ret.val.archive)

C10_Witness ==
    /\ op = "CategoryId::try_from"
    /\ ret.tag = "Ok"
    /\ ret.val.archive = "AstroPh"
    /\ ret.val.group = "Physics"

(***************************************************************************)
(* Category identifiers: display, parsing and validated construction.       *)
(***************************************************************************)
\* The archives whose only subject is the empty one.
NoSubjectArchives ==
    {"GrQc", "HepEx", "HepLat", "HepPh", "HepTh", "MathPh", "NuclEx",
     "NuclTh", "QuantPh"}

\* The archive substring of a category text: the text before the first dot,
\* or the whole text when there is no dot.
ArchiveSubstring(text) ==
    IF find(text, ".") = 0 THEN text ELSE SubSeq(text, 1, find(text, ".") - 1)

\* The subject substring of a category text: everything after the first dot.
SubjectSubstring(text) ==
    IF find(text, ".") = 0 THEN ""
    ELSE SubSeq(text, find(text, ".") + 1, Len(text))

\* C11: for every CategoryId c that try_new returned, the archives that
\* accept only the empty subject included, parsing the Display text of c
\* returns Ok(c).
C11_CategoryRoundTrip ==
    op = "CategoryId::try_from(to_string)" => ret = Ok(arg)

\* C12: Display of a CategoryId is the archive token alone when the subject
\* is empty and "archive.subject" otherwise; no trailing dot is rendered.
C12_DisplayNoTrailingDot ==
    op = "CategoryId::to_string" =>
        /\ ret = IF arg.subject = "" THEN Archive_fmt(arg.archive)
                 ELSE Archive_fmt(arg.archive) \o "." \o arg.subject
        /\ CharAt(ret, Len(ret)) # "."

\* C13: a category text without a dot is the archive with the empty subject:
\* it parses for the archives that accept the empty subject ("gr-qc",
\* "hep-th") and is ExpectedSubject for those that need one ("cs").
C13_NoDotIsBareArchive ==
    (/\ op = "CategoryId::try_from"
     /\ find(arg, ".") = 0
     /\ Archive_from_str(arg).tag = "Ok") =>
        LET a == Archive_from_str(arg).val
        IN  /\ a \in NoSubjectArchives =>
                   ret = Ok(CategoryId_new(Group_from(a), a, ""))
            /\ a \notin NoSubjectArchives \cup {"Physics", "CondMat"} =>
                   ret = Err("ExpectedSubject")

\* C14: when the archive substring of a category text is not an archive
\* token, parsing returns InvalidArchive with exactly that substring,
\* whatever follows the dot, nothing included.
C14_InvalidArchive ==
    (/\ op = "CategoryId::try_from"
     /\ Archive_from_str(ArchiveSubstring(arg)).tag # "Ok") =>
        ret = ErrWith("InvalidArchive", "", ArchiveSubstring(arg))

\* C15: category parsing splits on the first dot only: with a valid archive
\* and a subject (everything after the first dot) that is not one of the
\* archive's, the result is InvalidArchiveSubject(archive, subject) with the
\* whole subject substring; "cs.LG.x" gives InvalidArchiveSubject(Cs, "LG.x").
C15_SplitOnFirstDot ==
    (/\ op = "CategoryId::try_from"
     /\ find(arg, ".") > 0
     /\ Len(SubjectSubstring(arg)) > 0
     /\ Archive_from_str(ArchiveSubstring(arg)).tag = "Ok") =>
        LET a == Archive_from_str(ArchiveSubstring(arg)).val
            t == SubjectSubstring(arg)
        IN  ~Archive_is_valid_subject(a, t) =>
                ret = ErrWith("InvalidArchiveSubject", a, t)

\* The entries of a subject table, as a linear scan sees them.
TableEntries(table) == {table[i] : i \in 1..Len(table)}

\* The subjects listed for an archive that has a subject list.
C16_SubjectList(a) ==
    CASE a = "AstroPh" -> {"CO", "EP", "GA", "HE", "IM", "SR"}
      [] a = "CondMat" -> {"dis-nn", "mes-hall", "mtrl-sci", "other",
                           "quant-gas", "soft", "stat-mech", "str-el",
                           "supr-con"}
      [] a = "Cs"      -> TableEntries(COMPSCI_TABLE)
      [] a = "Econ"    -> {"EM", "GN", "TH"}
      [] a = "Eess"    -> {"AS", "IV", "SP", "SY"}
      [] a = "Math"    -> TableEntries(MATH_TABLE)
      [] a = "Nlin"    -> {"AO", "CD", "CG", "PS", "SI"}
      [] a = "Physics" -> TableEntries(PHYSICS_TABLE)
      [] a = "QBio"    -> {"BM", "CB", "GN", "MN", "NC", "OT", "PE", "QM",
                           "SC", "TO"}
      [] a = "QFin"    -> {"CP", "EC", "GN", "MF", "PM", "PR", "RM", "ST",
                           "SR"}
      [] a = "Stat"    -> {"AP", "CO", "ME", "ML", "OT", "TH"}
      [] OTHER         -> {""}

StrictlyAscending(table) ==
    \A i \in 1..(Len(table) - 1) : str_cmp(table[i], table[i + 1]) = "Less"

\* C17: the Cs, Math and Physics subject tables are strictly ascending in
\* byte order, without duplicates, and for these archives the binary search
\* agrees with a linear scan: true for every entry of the table, false for
\* every other text.
C17_SortedTables ==
    /\ (op = "Archive::is_valid_subject"
          /\ arg.archive \in {"Cs", "Math", "Physics"}) =>
          LET table == CASE arg.archive = "Cs" -> Archive_COMPSCI_TABLE
                         [] arg.archive = "Math" -> Archive_MATH_TABLE
                         [] arg.archive = "Physics" -> Archive_PHYSICS_TABLE
          IN  /\ StrictlyAscending(table)
              /\ ret = (arg.subject \in TableEntries(table))
    /\ (op = "CategoryId::try_new"
          /\ arg.archive \in {"Cs", "Math", "Physics"}) =>
          LET table == CASE arg.archive = "Cs" -> COMPSCI_TABLE
                         [] arg.archive = "Math" -> MATH_TABLE
                         [] arg.archive = "Physics" -> PHYSICS_TABLE
          IN  /\ StrictlyAscending(table)
              /\ (ret.tag = "Some") = (arg.subject \in TableEntries(table))

C17_Witness ==
    /\ op = "Archive::is_valid_subject"
    /\ arg.archive = "Cs"
    /\ arg.subject = "LG"
    /\ ret = TRUE

\* C18: the archives that may omit the subject are exactly Physics and
\* CondMat, and for these two a category without a subject is valid:
\* is_valid_subject(archive, "") holds and try_new(archive, "") succeeds.
C18_MayOmitSubject ==
    /\ op = "Archive::can_omit_subjects" =>
          ret = (arg \in {"Physics", "CondMat"})
    /\ (op = "Archive::is_valid_subject"
          /\ can_omit_subjects(arg.archive) /\ arg.subject = "") =>
          ret = TRUE
    /\ (op = "CategoryId::try_new"
          /\ can_omit_subjects(arg.archive) /\ arg.subject = "") =>
          ret.tag = "Some"

(***************************************************************************)
(* Article versions.                                                        *)
(***************************************************************************)
\* The text that follows the number of a parsed identifier.
VersionRemainder ==
    LET tail == TailText(arg, ParsedScheme)
        dot  == IF ParsedScheme = "V2" THEN 1 ELSE 0
    IN  SubSeq(tail, 4 + dot + Len(ParsedId.number) + 1, Len(tail))

\* The version a valid version text stands for.
VersionOfText(t) ==
    IF Len(t) = 0 THEN Latest ELSE Num(Decimal(SubSeq(t, 2, Len(t))))

\* C19: the text after the number of an identifier is accepted as a version
\* only if it is empty (Latest) or a v and one or more ASCII digits of value
\* 0..255; any other remainder (another character, a v without digits, a
\* value above 255, characters after the digits) makes the parse fail: it is
\* neither ignored nor read as Latest.
C19_VersionRemainder ==
    /\ (op = "parse_numbervv" /\ ret.tag = "Some") =>
          LET rest == SubSeq(arg, Len(ret.val.number) + 1, Len(arg))
          IN  /\ ValidVersionText(rest)
              /\ ret.val.version = VersionOfText(rest)
    /\ (op \in ParseOps /\ ret.tag = "Ok") =>
          /\ ValidVersionText(VersionRemainder)
          /\ ParsedId.version = VersionOfText(VersionRemainder)

\* C20: Latest displays as the empty text and Num(n) as v and the decimal
\* n, and for every version v (Latest, Num(0) .. Num(255)) parsing a number
\* followed by the display of v yields the number and v again.
C20_VersionRoundTrip ==
    /\ op = "ArticleVersion::to_string" =>
          ret = IF arg = Latest THEN "" ELSE "v" \o NatToString(arg.n)
    /\ op = "parse_numbervv(to_string)" =>
          ret = Some([number |-> arg.number, version |-> arg.version])

C20_Witness ==
    /\ op = "parse_numbervv(to_string)"
    /\ arg.number = "0001"
    /\ arg.version = Num(U8_MAX)
    /\ ret.tag = "Some"
    /\ ret.val.version = Num(U8_MAX)

(***************************************************************************)
(* Stamps.                                                                  *)
(***************************************************************************)
\* The canonical text of a stamp with a category: the identifier, the
\* bracketed category, the day, the three-letter month name and the year.
CanonicalStampText(stamp) ==
    ArxivId_fmt(stamp.id).val
    \o " [" \o ArxivCategoryId_fmt(stamp.category.val) \o "] "
    \o to_string(stamp.submitted.day) \o " "
    \o MONTH_SHORT[stamp.submitted.month] \o " "
    \o to_string(stamp.submitted.year)

\* C21: a stamp with a category is displayed in its canonical form, with the
\* day unpadded, the three-letter month name and the four-digit year, and
\* parsing the displayed text gives the stamp back, in every month.
C21_StampRoundTrip ==
    /\ (op = "ArxivStamp::to_string" /\ arg.category.tag = "Some")
          => ret = Ok(CanonicalStampText(arg))
    /\ (op = "ArxivStamp::try_from(to_string)" /\ arg.category.tag = "Some")
          => ret = Ok(arg)

\* The parts of a stamp text: the identifier before the first space, the
\* text after it, and of that text the second component, which ends at the
\* next space, and the remainder after that space.
StampIdPart(text) == SubSeq(text, 1, find(text, " ") - 1)

StampAfterId(text) == SubSeq(text, find(text, " ") + 1, Len(text))

StampSecondComponent(text) ==
    LET rest == StampAfterId(text)
    IN  IF find(rest, " ") = 0 THEN rest
        ELSE SubSeq(rest, 1, find(rest, " ") - 1)

\* A well-formed bracketed valid category: "[", a valid category text, "]".
IsBracketedCategory(s) ==
    /\ Len(s) >= 2
    /\ CharAt(s, 1) = "["
    /\ CharAt(s, Len(s)) = "]"
    /\ ArxivCategoryId_from_str(SubSeq(s, 2, Len(s) - 1)).tag = "Ok"

\* C22: a stamp text with fewer than two spaces gives NotEnoughComponents,
\* whatever its identifier, category and date parts are.
C22_NotEnoughComponents ==
    (op = "ArxivStamp::try_from" /\ count(arg, " ") < 2)
        => ret = Err("NotEnoughComponents")

C24_CategoryOptional ==
    /\ (/\ op = "ArxivStamp::try_from"
        /\ find(arg, " ") # 0
        /\ ArxivId_try_from(StampIdPart(arg)).tag = "Ok"
        /\ parse_date(StampAfterId(arg)).tag = "Ok")
           => /\ ret.tag = "Ok"
              /\ ret.val.category = None
              /\ ret.val.id = ArxivId_try_from(StampIdPart(arg)).val
              /\ ret.val.submitted = parse_date(StampAfterId(arg)).val
    /\ (op = "ArxivStamp::try_from" /\ arg = "arXiv:2001.00001 1 Jan 2000")
           => ret = Ok(ArxivStamp_new(
                         ArticleId_V2(ArticleIdV2_new(2020, 1, "00001", Latest)),
                         None, Date_new(2000, 1, 1)))
    /\ (op = "ArxivStamp::to_string" /\ arg.category = None)
           => /\ ret.tag = "Ok"
              /\ find(ret.val, "[") = 0
              /\ find(ret.val, "]") = 0
              /\ count(ret.val, " ") = 3
              /\ StampIdPart(ret.val) = ArxivId_fmt(arg.id).val
    /\ (/\ op = "ArxivStamp::to_string"
        /\ arg = ArxivStamp_new(
                     ArticleId_V2(ArticleIdV2_new(2020, 11, "00001", Latest)),
                     None, Date_new(2011, 1, 1)))
           => ret = Ok("arXiv:2011.00001 1 Jan 2011")

C24_Witness ==
    /\ op = "ArxivStamp::try_from"
    /\ arg = "arXiv:2001.00001 1 Jan 2000"
    /\ ret.tag = "Ok"
    /\ ret.val.category = None

(***************************************************************************)
(* The setters of the version.                                              *)
(***************************************************************************)
SetterOps ==
    {"ArticleIdV2::set_version", "ArticleIdV2::set_latest",
     "identifier::ArticleId::set_version", "identifier::ArticleId::set_latest"}

\* C25: after any sequence of set_version and set_latest the year, the
\* month, the number and the unique identifier are those of the identifier
\* at construction, and the version is Num(n) of the last set_version, or
\* Latest after set_latest.
C25_SetVersionFrame ==
    op \in SetterOps =>
        /\ ret.val.year = arg.original.year
        /\ ret.val.month = arg.original.month
        /\ ret.val.number = arg.original.number
        /\ IF op \in {"ArticleIdV2::set_version", "ArticleIdV2::set_latest"}
           THEN ArticleIdV2_as_unique_ident(ret.val)
                    = ArticleIdV2_as_unique_ident(arg.original)
           ELSE identifier_ArticleId_as_unique_ident(ret.val)
                    = identifier_ArticleId_as_unique_ident(arg.original)
        /\ IF op \in {"ArticleIdV2::set_version",
                      "identifier::ArticleId::set_version"}
           THEN ret.val.version = Num(arg.version)
           ELSE ret.val.version = Latest

\* set_latest after set_version(255) on an identifier made with version 1.
C25_Witness ==
    /\ op = "ArticleIdV2::set_latest"
    /\ arg.original.version = Num(1)
    /\ ret.val.version = Latest
    /\ ret.val.number = "00001"

(***************************************************************************)
(* The unique identifier, the greedy number and the forced scheme.          *)
(***************************************************************************)
\* C26: the unique identifier of a parsed identifier is the text it was
\* parsed from, category, prefix and version left out: the seven characters
\* YYMMNNN in the old scheme, YYMM.NNNN or YYMM.NNNNN in the new one.
C26_UniqueIdentInvertsParse ==
    /\ op = "ArticleIdV1::as_unique_ident"
          => ret = Ok(SubSeq(TailText(arg.text, "V1"), 1, 7))
    /\ op = "ArticleIdV2::as_unique_ident"
          => ret = Ok(SubSeq(TailText(arg.text, "V2"), 1,
                             5 + Len(arg.id.number)))

\* The parsers of a new-scheme identifier text.
NewSchemeParseOps == {"ArticleIdV2::try_from", "identifier::ArticleId::try_from"}

\* The text is "arXiv:", four characters, a dot and four digits or more;
\* DigitsAfterDot is the number of digits that follow the dot directly.
HasFourDigitNumber(text) ==
    /\ HasPrefix(text)
    /\ Len(text) >= 15
    /\ CharAt(text, 11) = "."
    /\ all_ascii_digits(SubSeq(text, 12, 15))

DigitsAfterDot(text) ==
    LET after == SubSeq(text, 12, Len(text))
    IN  IF all_ascii_digits(after) THEN Len(after)
        ELSE (CHOOSE i \in 1..Len(after) :
                 /\ ~is_ascii_digit(CharAt(after, i))
                 /\ all_ascii_digits(SubSeq(after, 1, i - 1))) - 1

\* C27: in the new scheme a fifth digit after the dot belongs to the number
\* and not to the version, the number has four digits when a 'v' follows
\* them, and a text with six digits after the dot is not accepted.
C27_GreedyNumber ==
    /\ (op \in NewSchemeParseOps /\ HasFourDigitNumber(arg) /\ ret.tag = "Ok")
          => /\ DigitsAfterDot(arg) >= 5 => ret.val.number = SubSeq(arg, 12, 16)
             /\ DigitsAfterDot(arg) = 4 => ret.val.number = SubSeq(arg, 12, 15)
             /\ (DigitsAfterDot(arg) = 5 /\ Len(arg) = 16)
                   => ret.val.version = Latest
    /\ (op \in NewSchemeParseOps /\ HasFourDigitNumber(arg)
        /\ DigitsAfterDot(arg) >= 6)
          => ret.tag # "Ok"
    /\ (op = "parse_numbervv" /\ ret.tag = "Some")
          => ret.val.number =
                 IF Len(arg) >= 5 /\ is_ascii_digit(CharAt(arg, 5))
                 THEN SubSeq(arg, 1, 5) ELSE SubSeq(arg, 1, 4)

\* C28: with the scheme forced, a text of the other scheme, told by the
\* first character after the prefix, gives ExpectedCategory; and a forced
\* parse that succeeds gives the forced variant, so that try_from returns
\* its identifier and the conversion as_v1 / as_v2 does not abort.
C28_ForcedScheme ==
    /\ (op = "ArticleIdV2::try_from" /\ LetterAfterPrefix(arg))
          => ret = Err("ExpectedCategory")
    /\ (op = "ArticleIdV1::try_from" /\ HasPrefix(arg) /\ ~LetterAfterPrefix(arg))
          => ret = Err("ExpectedCategory")
    /\ (op = "ArticleIdV1::try_from" /\ parse("V1", arg).tag = "Ok")
          => /\ parse("V1", arg).val.variant = "V1"
             /\ ret = Ok(parse("V1", arg).val.id)
    /\ (op = "ArticleIdV2::try_from" /\ parse("V2", arg).tag = "Ok")
          => /\ parse("V2", arg).val.variant = "V2"
             /\ ret = Ok(parse("V2", arg).val.id)

C28_Witness ==
    /\ op = "ArticleIdV2::try_from"
    /\ arg = "arXiv:cs.LG/0001448v1"
    /\ ret = Err("ExpectedCategory")

(***************************************************************************)
(* ArxivId of lib.rs.                                                       *)
(***************************************************************************)
\* The text "arXiv:YYMM.number" and the suffix "vN" of a version.
ArxivIdText(x) ==
    "arXiv:" \o fmt_int_02(x.year % 100) \o fmt_int_02(x.month)
    \o "." \o x.id
    \o (IF x.version.tag = "Some" THEN "v" \o to_string(x.version.val) ELSE "")

\* C29: a value of ArxivId with an id of 4 or 5 digits is displayed as
\* "arXiv:YYMM.number" followed by "vN" when it has a version, and parsing
\* the displayed text gives the value back, version included.
C29_OwnedIdRoundTrip ==
    /\ op = "ArxivId::to_string" => ret = Ok(ArxivIdText(arg))
    /\ op = "ArxivId::from_str(to_string)" => ret = Ok(arg)

(***************************************************************************)
(* The date of an identifier text.                                          *)
(***************************************************************************)
\* The four characters YYMM of an identifier text: after the slash when the
\* parse is of the old scheme, after the prefix otherwise.
DateText(text) ==
    LET tail == IF op \in {"ArticleId::try_from", "ArticleIdV1::try_from"}
                THEN TailText(text, "V1") ELSE TailText(text, "V2")
    IN  IF Len(tail) >= 4 THEN SubSeq(tail, 1, 4) ELSE tail

\* The category of an old-scheme text, between the prefix and the slash,
\* is one the category parser accepts.
V1CategoryParses(text) ==
    /\ LetterAfterPrefix(text)
    /\ find(text, "/") # 0
    /\ CategoryId_try_from(SubSeq(text, 7, find(text, "/") - 1)).tag = "Ok"

\* C30: a text that an identifier parser accepts has four ASCII digits as
\* its date; with a sign or another character that is not a digit in the
\* year the forced parsers answer InvalidYear, and with one in the month
\* InvalidMonth.
C30_DateDigits ==
    /\ (op \in ParseOps \cup {"identifier::ArticleId::try_from"}
        /\ ret.tag = "Ok")
          => Len(DateText(arg)) = 4 /\ all_ascii_digits(DateText(arg))
    /\ (/\ op \in {"ArticleIdV1::try_from", "ArticleIdV2::try_from"}
        /\ arg \in V1Texts \cup V2Texts
        /\ op = "ArticleIdV1::try_from" => V1CategoryParses(arg)
        /\ op = "ArticleIdV2::try_from" => ~LetterAfterPrefix(arg)
        /\ ~all_ascii_digits(DateText(arg)))
          => IF ~all_ascii_digits(SubSeq(DateText(arg), 1, 2))
             THEN ret = Err("InvalidYear")
             ELSE ret = Err("InvalidMonth")

====
